---- MODULE Spec2Model ----
(***************************************************************************)
(* Model of the TimberFrameCompiler framing engine (TimberEngine.generate  *)
(* and the algorithms it calls).                                           *)
(*                                                                         *)
(* Numbers.  The engine computes in metres with IEEE doubles.  The model   *)
(* computes in integers, one unit being a quarter of a millimetre, so that *)
(* every quantity the engine derives from the inputs used here (halves of  *)
(* widths, 0.75 x depth, 0.25 x spacing, the mid-height of the cavity) is  *)
(* an exact integer, and so that coordinates that are not whole            *)
(* millimetres exist.  Walls are axis-aligned, so lengths (square roots)   *)
(* are exact as well.  A direction component dirX = dx / length is kept as *)
(* the pair (dx, length); "dirX * t" is (dx * t) \div length.              *)
(***************************************************************************)
EXTENDS Integers, Sequences, FiniteSets, TLC

VARIABLES walls, params, openings, shift,
          pc, wi, junctions, junctionsShifted, members, frame, oc,
          wm, notified, app, log

vars == <<walls, params, openings, shift,
          pc, wi, junctions, junctionsShifted, members, frame, oc,
          wm, notified, app, log>>

\* the variables of the engine, and those of the page around it
engineVars == <<walls, params, openings, shift,
                pc, wi, junctions, junctionsShifted, members, frame, oc>>
pageVars == <<wm, notified, app, log>>

----------------------------------------------------------------------------
(* Units and generic helpers *)

mm(n) == 4 * n

Abs(v) == IF v < 0 THEN 0 - v ELSE v
Min2(a, b) == IF a <= b THEN a ELSE b
Max2(a, b) == IF a >= b THEN a ELSE b

RECURSIVE Flatten(_)
Flatten(ss) == IF ss = <<>> THEN <<>> ELSE Head(ss) \o Flatten(Tail(ss))

InSeq(s, v) == \E i \in 1..Len(s) : s[i] = v

\* floor of the square root, by bisection on [lo, hi]
RECURSIVE SqrtBetween(_, _, _)
SqrtBetween(n, lo, hi) ==
  IF lo >= hi THEN lo
  ELSE LET mid == (lo + hi + 1) \div 2
       IN IF mid * mid <= n THEN SqrtBetween(n, mid, hi)
          ELSE SqrtBetween(n, lo, mid - 1)

\* Math.sqrt(dx*dx + dz*dz)
Hypot(dx, dz) ==
  IF dz = 0 THEN Abs(dx)
  ELSE IF dx = 0 THEN Abs(dz)
  ELSE SqrtBetween(dx * dx + dz * dz, 0, Abs(dx) + Abs(dz))

\* Math.round(v * 1000): v in quarter millimetres, result in millimetres,
\* halves rounded towards plus infinity
RoundMm(v) == (v + 2) \div 4

Pt(x, z) == [x |-> x, z |-> z]
Pt3(x, y, z) == [x |-> x, y |-> y, z |-> z]

Wall(id, sx, sz, ex, ez, wt) ==
  [id |-> id, start |-> Pt(sx, sz), end |-> Pt(ex, ez), wallType |-> wt]

Member(s, e, w, d, ty, wid) ==
  [start |-> s, end |-> e, width |-> w, depth |-> d, type |-> ty, wallId |-> wid]

\* Tolerance for floating-point comparisons: 0.005 m
EPS == mm(5)

\* the 0.01 m threshold under which generateWallFrame skips a wall
MinWallLength == mm(10)

----------------------------------------------------------------------------
(* Wall direction *)

computeWallDir(wall) ==
  LET dx == wall.end.x - wall.start.x
      dz == wall.end.z - wall.start.z
      length == Hypot(dx, dz)
  IN [dx |-> dx, dz |-> dz, length |-> length,
      \* dirX = dirN.x / length, dirZ = dirN.z / length; zero when length <= EPS
      dirN |-> IF length > EPS THEN Pt(dx, dz) ELSE Pt(0, 0)]

\* dirX * t and dirZ * t
DirXTimes(dir, t) == IF dir.dirN.x = 0 THEN 0 ELSE (dir.dirN.x * t) \div dir.length
DirZTimes(dir, t) == IF dir.dirN.z = 0 THEN 0 ELSE (dir.dirN.z * t) \div dir.length
\* normX * t = -dirZ * t and normZ * t = dirX * t
NormXTimes(dir, t) == 0 - DirZTimes(dir, t)
NormZTimes(dir, t) == DirXTimes(dir, t)

WallById(ws, id) == ws[CHOOSE i \in 1..Len(ws) : ws[i].id = id]

----------------------------------------------------------------------------
(* Junction detection *)

key(p) == <<RoundMm(p.x), RoundMm(p.z)>>

\* the projection taken of the point itself, not of the point relative to a
AlongSeg_absolute(pt, a, b) ==
  LET abx == b.x - a.x
      abz == b.z - a.z
      abLen == Hypot(abx, abz)
  IN (pt.x * abx + pt.z * abz) \div abLen

\* t * abLen for the projection parameter t of pt on the segment a-b
AlongSeg(pt, a, b) ==
  LET abx == b.x - a.x
      abz == b.z - a.z
      abLen == Hypot(abx, abz)
  IN ((pt.x - a.x) * abx + (pt.z - a.z) * abz) \div abLen

\* squared distance of pt from its projection on the segment a-b
PerpDistSq(pt, a, b) ==
  LET abx == b.x - a.x
      abz == b.z - a.z
      abLen == Hypot(abx, abz)
      s == AlongSeg(pt, a, b)
      projX == a.x + (s * abx) \div abLen
      projZ == a.z + (s * abz) \div abLen
  IN (pt.x - projX) * (pt.x - projX) + (pt.z - projZ) * (pt.z - projZ)

isPointOnSegment(pt, a, b) ==
  LET abLen == Hypot(b.x - a.x, b.z - a.z)
  IN IF abLen < EPS THEN FALSE
     ELSE LET s == AlongSeg(pt, a, b)
          IN \* t < EPS / abLen || t > 1 - EPS / abLen
             IF s < EPS \/ s > abLen - EPS THEN FALSE
             ELSE PerpDistSq(pt, a, b) < (EPS * 2) * (EPS * 2)

\* without the margin at the ends
isPointOnSegmentInterior_closed(pt, a, b) ==
  LET abLen == Hypot(b.x - a.x, b.z - a.z)
  IN IF abLen < EPS THEN FALSE
     ELSE LET s == AlongSeg(pt, a, b)
          IN IF s < 0 \/ s > abLen THEN FALSE
             ELSE PerpDistSq(pt, a, b) < (EPS * 2) * (EPS * 2)

isPointOnSegmentInterior(pt, a, b) ==
  LET abLen == Hypot(b.x - a.x, b.z - a.z)
  IN IF abLen < EPS THEN FALSE
     ELSE LET s == AlongSeg(pt, a, b)
          IN \* t < 0.01 || t > 0.99
             IF 100 * s < abLen \/ 100 * s > 99 * abLen THEN FALSE
             ELSE PerpDistSq(pt, a, b) < (EPS * 2) * (EPS * 2)

\* pointMap is an insertion-ordered Map: a sequence of
\* [key, point, wallIds]; this is "get or create the entry of key(pt), then
\* push id unless included"
PointMapAdd(pm, pt, id) ==
  LET k == key(pt)
      pm1 == IF \E i \in 1..Len(pm) : pm[i].key = k THEN pm
             ELSE Append(pm, [key |-> k, point |-> Pt(pt.x, pt.z), wallIds |-> <<>>])
      idx == CHOOSE i \in 1..Len(pm1) : pm1[i].key = k
  IN IF InSeq(pm1[idx].wallIds, id) THEN pm1
     ELSE [pm1 EXCEPT ![idx].wallIds = Append(@, id)]

\* the additions <<pt, id>> the body of the outer loop makes for walls[i]
WallPointAdds(ws, i) ==
  LET wall == ws[i]
      own == << <<wall.start, wall.id>>, <<wall.end, wall.id>> >>
      ForOther(j) ==
        IF ws[j].id = wall.id THEN <<>>
        ELSE Flatten([n \in 1..2 |->
               LET pt == IF n = 1 THEN wall.start ELSE wall.end
               IN IF isPointOnSegment(pt, ws[j].start, ws[j].end)
                  THEN << <<pt, wall.id>>, <<pt, ws[j].id>> >>
                  ELSE <<>>])
  IN own \o Flatten([j \in 1..Len(ws) |-> ForOther(j)])

RECURSIVE PointMapFold(_, _)
PointMapFold(pm, adds) ==
  IF adds = <<>> THEN pm
  ELSE PointMapFold(PointMapAdd(pm, Head(adds)[1], Head(adds)[2]), Tail(adds))

buildPointMap(ws) ==
  PointMapFold(<<>>, Flatten([i \in 1..Len(ws) |-> WallPointAdds(ws, i)]))

detectJunctions(ws) ==
  LET pm == buildPointMap(ws)
      IsTee(entry) ==
        \E n \in 1..Len(entry.wallIds) :
          LET w == WallById(ws, entry.wallIds[n])
          IN isPointOnSegmentInterior(entry.point, w.start, w.end)
      Junc(entry) ==
        IF Len(entry.wallIds) >= 2
        THEN << [point |-> entry.point, wallIds |-> entry.wallIds,
                 type |-> IF IsTee(entry) THEN "tee" ELSE "corner"] >>
        ELSE <<>>
  IN Flatten([n \in 1..Len(pm) |-> Junc(pm[n])])

----------------------------------------------------------------------------
(* Stud position helpers *)

RECURSIVE StudLoop(_, _, _, _)
StudLoop(positions, pos, wallLength, studSpacing) ==
  IF pos < wallLength - EPS
  THEN StudLoop(Append(positions, pos), pos + studSpacing, wallLength, studSpacing)
  ELSE positions

\* the end stud always appended, a short last bay never merged
computeStudPositionsOC_append(wallLength, studSpacing) ==
  Append(StudLoop(<<0>>, studSpacing, wallLength, studSpacing), wallLength)

computeStudPositionsOC(wallLength, studSpacing) ==
  LET positions == StudLoop(<<0>>, studSpacing, wallLength, studSpacing)
      last == positions[Len(positions)]
  IN \* wallLength - last > studSpacing * 0.25
     IF 4 * (wallLength - last) > studSpacing
     THEN Append(positions, wallLength)
     ELSE IF Len(positions) > 1
          THEN [positions EXCEPT ![Len(positions)] = wallLength]
          ELSE positions

----------------------------------------------------------------------------
(* Plates and projections *)

\* the top plate where a frame without double top plate has it
createPlate_single(wall, p, position) ==
  LET plateThick == p.studWidth
      y == IF position = "bottom" THEN 0 ELSE p.wallHeight - plateThick
  IN Member(Pt3(wall.start.x, y, wall.start.z), Pt3(wall.end.x, y, wall.end.z),
            plateThick, p.studDepth,
            IF position = "bottom" THEN "bottom_plate" ELSE "top_plate", wall.id)

createPlate(wall, p, position) ==
  LET plateThick == p.studWidth
      y == IF position = "bottom" THEN 0 ELSE p.wallHeight - plateThick * 2
  IN Member(Pt3(wall.start.x, y, wall.start.z), Pt3(wall.end.x, y, wall.end.z),
            plateThick, p.studDepth,
            IF position = "bottom" THEN "bottom_plate" ELSE "top_plate", wall.id)

\* the result is <<t>>, or <<>> for null
projectPointOntoWall(pt, wall, dir) ==
  LET apx == pt.x - wall.start.x
      apz == pt.z - wall.start.z
      t == DirXTimes(dir, apx) + DirZTimes(dir, apz)
  IN IF t < 0 - EPS \/ t > dir.length + EPS THEN <<>>
     ELSE LET projX == wall.start.x + DirXTimes(dir, t)
              projZ == wall.start.z + DirZTimes(dir, t)
              distSq == (pt.x - projX) * (pt.x - projX) + (pt.z - projZ) * (pt.z - projZ)
          IN IF distSq > (EPS * 10) * (EPS * 10) THEN <<>> ELSE <<t>>

projectPointOntoWallT(pt, wall, dir) ==
  DirXTimes(dir, pt.x - wall.start.x) + DirZTimes(dir, pt.z - wall.start.z)

----------------------------------------------------------------------------
(* Sorting: Array.prototype.sort is stable *)

RECURSIVE InsertNum(_, _)
InsertNum(s, v) ==
  IF s = <<>> THEN <<v>>
  ELSE IF v < Head(s) THEN <<v>> \o s
  ELSE <<Head(s)>> \o InsertNum(Tail(s), v)

RECURSIVE SortNums(_)
SortNums(s) == IF s = <<>> THEN <<>> ELSE InsertNum(SortNums(SubSeq(s, 1, Len(s) - 1)), s[Len(s)])

RECURSIVE InsertOpening(_, _)
InsertOpening(s, o) ==
  IF s = <<>> THEN <<o>>
  ELSE IF o.position < Head(s).position THEN <<o>> \o s
  ELSE <<Head(s)>> \o InsertOpening(Tail(s), o)

RECURSIVE SortOpenings(_)
SortOpenings(s) ==
  IF s = <<>> THEN <<>>
  ELSE InsertOpening(SortOpenings(SubSeq(s, 1, Len(s) - 1)), s[Len(s)])

----------------------------------------------------------------------------
(* Single wall frame generation *)

\* the point of the wall at distance t from its start, at height y
OnWall(wall, dir, t, y) ==
  Pt3(wall.start.x + DirXTimes(dir, t), y, wall.start.z + DirZTimes(dir, t))

buildOpeningZones(os, plateThick) ==
  [n \in 1..Len(os) |->
     [left |-> os[n].position - os[n].width \div 2,
      right |-> os[n].position + os[n].width \div 2,
      headerY |-> plateThick + os[n].sillHeight + os[n].height,
      sillY |-> plateThick + os[n].sillHeight,
      opening |-> os[n]]]

\* the stud positions within studDepth + EPS of a junction projected on the wall
junctionPositionsOf(wall, dir, p, juncs, studPositions) ==
  {studPositions[n] : n \in
     {m \in 1..Len(studPositions) :
        \E j \in 1..Len(juncs) :
          LET t == projectPointOntoWall(juncs[j].point, wall, dir)
          IN /\ t # <<>>
             /\ Abs(studPositions[m] - t[1]) < p.studDepth + EPS}}

\* zones.find(z => t > z.left + EPS && t < z.right - EPS): <<zone>> or <<>>
findZone(zones, t) ==
  LET hits == {n \in 1..Len(zones) : t > zones[n].left + EPS /\ t < zones[n].right - EPS}
  IN IF hits = {} THEN <<>>
     ELSE <<zones[CHOOSE n \in hits : \A m \in hits : n <= m]>>

\* the upper cripple starting at the underside of the header
placeStud_fromHeaderY(wall, dir, p, zones, junctionPositions, t) ==
  LET studWidth == p.studWidth
      plateThick == p.studWidth
      found == findZone(zones, t)
  IN IF found # <<>>
     THEN LET zone == found[1]
              crippleTop == p.wallHeight - plateThick * 2
              upper == IF zone.headerY + EPS < crippleTop
                       THEN << Member(OnWall(wall, dir, t, zone.headerY),
                                      OnWall(wall, dir, t, crippleTop),
                                      studWidth, p.studDepth, "cripple_stud", wall.id) >>
                       ELSE <<>>
              lower == IF zone.opening.type = "window" /\ zone.sillY > plateThick + EPS
                       THEN << Member(OnWall(wall, dir, t, plateThick),
                                      OnWall(wall, dir, t, zone.sillY),
                                      studWidth, p.studDepth, "cripple_stud", wall.id) >>
                       ELSE <<>>
          IN upper \o lower
     ELSE IF t \in junctionPositions /\ t > EPS /\ t < dir.length - EPS THEN <<>>
     ELSE LET studBottom == plateThick
              studTop == p.wallHeight - plateThick * 2
          IN IF studTop - studBottom > EPS
             THEN << Member(OnWall(wall, dir, t, studBottom), OnWall(wall, dir, t, studTop),
                            studWidth, p.studDepth, "stud", wall.id) >>
             ELSE <<>>

\* the body of the "Place studs" loop for one position t
placeStud(wall, dir, p, zones, junctionPositions, t) ==
  LET studWidth == p.studWidth
      plateThick == p.studWidth
      found == findZone(zones, t)
  IN IF found # <<>>
     THEN LET zone == found[1]
              headerHeight == studWidth * 2
              crippleTop == p.wallHeight - plateThick * 2
              upper == IF zone.headerY + headerHeight + EPS < crippleTop
                       THEN << Member(OnWall(wall, dir, t, zone.headerY + headerHeight),
                                      OnWall(wall, dir, t, crippleTop),
                                      studWidth, p.studDepth, "cripple_stud", wall.id) >>
                       ELSE <<>>
              lower == IF zone.opening.type = "window" /\ zone.sillY > plateThick + EPS
                       THEN << Member(OnWall(wall, dir, t, plateThick),
                                      OnWall(wall, dir, t, zone.sillY),
                                      studWidth, p.studDepth, "cripple_stud", wall.id) >>
                       ELSE <<>>
          IN upper \o lower
     ELSE IF t \in junctionPositions /\ t > EPS /\ t < dir.length - EPS THEN <<>>
     ELSE LET studBottom == plateThick
              studTop == p.wallHeight - plateThick * 2
          IN IF studTop - studBottom > EPS
             THEN << Member(OnWall(wall, dir, t, studBottom), OnWall(wall, dir, t, studTop),
                            studWidth, p.studDepth, "stud", wall.id) >>
             ELSE <<>>

\* an opening wider than the wall left unframed
frameOpening_omitWide(wall, dir, p, zone) ==
  IF zone.right - zone.left > dir.length THEN <<>>
  ELSE
    LET studWidth == p.studWidth
        studDepth == p.studDepth
        studBottom == studWidth
        studTop == p.wallHeight - studWidth * 2
        jackLeftT == zone.left + studWidth
        jackRightT == zone.right - studWidth
    IN << Member(OnWall(wall, dir, zone.left, studBottom), OnWall(wall, dir, zone.left, studTop),
                 studWidth, studDepth, "king_stud", wall.id),
          Member(OnWall(wall, dir, zone.right, studBottom), OnWall(wall, dir, zone.right, studTop),
                 studWidth, studDepth, "king_stud", wall.id),
          Member(OnWall(wall, dir, jackLeftT, studBottom), OnWall(wall, dir, jackLeftT, zone.headerY),
                 studWidth, studDepth, "trimmer", wall.id),
          Member(OnWall(wall, dir, jackRightT, studBottom), OnWall(wall, dir, jackRightT, zone.headerY),
                 studWidth, studDepth, "trimmer", wall.id),
          Member(OnWall(wall, dir, zone.left, zone.headerY), OnWall(wall, dir, zone.right, zone.headerY),
                 studWidth * 2, studDepth, "header", wall.id) >>
       \o (IF zone.opening.type = "window"
           THEN << Member(OnWall(wall, dir, jackLeftT, zone.sillY),
                          OnWall(wall, dir, jackRightT, zone.sillY),
                          studWidth, studDepth, "sill_plate", wall.id) >>
           ELSE <<>>)

\* the trimmers inset by the stud depth and the sill from king stud to king
\* stud, as in the framer before jack studs were set tight to the king studs
frameOpening_inset(wall, dir, p, zone) ==
  LET studWidth == p.studWidth
      studDepth == p.studDepth
      studBottom == studWidth
      studTop == p.wallHeight - studWidth * 2
      jackLeftT == zone.left + studDepth
      jackRightT == zone.right - studDepth
  IN << Member(OnWall(wall, dir, zone.left, studBottom), OnWall(wall, dir, zone.left, studTop),
               studWidth, studDepth, "king_stud", wall.id),
        Member(OnWall(wall, dir, zone.right, studBottom), OnWall(wall, dir, zone.right, studTop),
               studWidth, studDepth, "king_stud", wall.id),
        Member(OnWall(wall, dir, jackLeftT, studBottom), OnWall(wall, dir, jackLeftT, zone.headerY),
               studWidth, studDepth, "trimmer", wall.id),
        Member(OnWall(wall, dir, jackRightT, studBottom), OnWall(wall, dir, jackRightT, zone.headerY),
               studWidth, studDepth, "trimmer", wall.id),
        Member(OnWall(wall, dir, zone.left, zone.headerY), OnWall(wall, dir, zone.right, zone.headerY),
               studWidth * 2, studDepth, "header", wall.id) >>
     \o (IF zone.opening.type = "window"
         THEN << Member(OnWall(wall, dir, zone.left, zone.sillY),
                        OnWall(wall, dir, zone.right, zone.sillY),
                        studWidth, studDepth, "sill_plate", wall.id) >>
         ELSE <<>>)

frameOpening(wall, dir, p, zone) ==
  LET studWidth == p.studWidth
      studDepth == p.studDepth
      plateThick == studWidth
      kingLeftT == zone.left
      kingRightT == zone.right
      studBottom == plateThick
      studTop == p.wallHeight - plateThick * 2
      jackLeftT == kingLeftT + studWidth
      jackRightT == kingRightT - studWidth
      headerDepth == studDepth
      headerWidth == studWidth * 2
  IN << Member(OnWall(wall, dir, kingLeftT, studBottom), OnWall(wall, dir, kingLeftT, studTop),
               studWidth, studDepth, "king_stud", wall.id),
        Member(OnWall(wall, dir, kingRightT, studBottom), OnWall(wall, dir, kingRightT, studTop),
               studWidth, studDepth, "king_stud", wall.id),
        Member(OnWall(wall, dir, jackLeftT, studBottom), OnWall(wall, dir, jackLeftT, zone.headerY),
               studWidth, studDepth, "trimmer", wall.id),
        Member(OnWall(wall, dir, jackRightT, studBottom), OnWall(wall, dir, jackRightT, zone.headerY),
               studWidth, studDepth, "trimmer", wall.id),
        Member(OnWall(wall, dir, kingLeftT, zone.headerY), OnWall(wall, dir, kingRightT, zone.headerY),
               headerWidth, headerDepth, "header", wall.id) >>
     \o (IF zone.opening.type = "window"
         THEN << Member(OnWall(wall, dir, jackLeftT, zone.sillY),
                        OnWall(wall, dir, jackRightT, zone.sillY),
                        studWidth, studDepth, "sill_plate", wall.id) >>
         ELSE <<>>)

\* the loop over adjacent pairs stopping one pair early
addNoggingsWithOpenings_shortLoop(wall, dir, p, studPositions, zones) ==
  LET studWidth == p.studWidth
      studDepth == p.studDepth
      noggingY == (studWidth + p.wallHeight - studWidth * 2) \div 2
      allPositions ==
        SortNums(studPositions \o
                 Flatten([n \in 1..Len(zones) |->
                            << zones[n].left, zones[n].right,
                               zones[n].left + studWidth, zones[n].right - studWidth >>]))
      keep == {i \in 1..Len(allPositions) :
                 i = 1 \/ allPositions[i] - allPositions[i - 1] > EPS}
      unique == SelectSeq([i \in 1..Len(allPositions) |-> <<i, allPositions[i]>>],
                          LAMBDA e : e[1] \in keep)
      Nog(i) ==
        LET t1 == unique[i][2]
            t2 == unique[i + 1][2]
            insideOpening == \E n \in 1..Len(zones) :
                               t1 >= zones[n].left - EPS /\ t2 <= zones[n].right + EPS
            spansOpening == \E n \in 1..Len(zones) :
                              t1 < zones[n].left - EPS /\ t2 > zones[n].right + EPS
        IN IF t2 - t1 < studDepth + EPS THEN <<>>
           ELSE IF insideOpening THEN <<>>
           ELSE IF spansOpening THEN <<>>
           ELSE << Member(OnWall(wall, dir, t1, noggingY), OnWall(wall, dir, t2, noggingY),
                          studWidth, studDepth, "nogging", wall.id) >>
  IN Flatten([i \in 1..(Len(unique) - 2) |-> Nog(i)])

\* without the exclusion of the spans inside an opening
addNoggingsWithOpenings_insideToo(wall, dir, p, studPositions, zones) ==
  LET studWidth == p.studWidth
      studDepth == p.studDepth
      plateThick == studWidth
      noggingY == (plateThick + p.wallHeight - plateThick * 2) \div 2
      allPositions ==
        SortNums(studPositions \o
                 Flatten([n \in 1..Len(zones) |->
                            << zones[n].left, zones[n].right,
                               zones[n].left + studWidth, zones[n].right - studWidth >>]))
      keep == {i \in 1..Len(allPositions) :
                 i = 1 \/ allPositions[i] - allPositions[i - 1] > EPS}
      unique == SelectSeq([i \in 1..Len(allPositions) |-> <<i, allPositions[i]>>],
                          LAMBDA e : e[1] \in keep)
      Nog(i) ==
        LET t1 == unique[i][2]
            t2 == unique[i + 1][2]
            insideOpening == \E n \in 1..Len(zones) :
                               t1 >= zones[n].left - EPS /\ t2 <= zones[n].right + EPS
            spansOpening == \E n \in 1..Len(zones) :
                              t1 < zones[n].left - EPS /\ t2 > zones[n].right + EPS
        IN IF t2 - t1 < studDepth + EPS THEN <<>>
           ELSE IF spansOpening THEN <<>>
           ELSE << Member(OnWall(wall, dir, t1, noggingY), OnWall(wall, dir, t2, noggingY),
                          studWidth, studDepth, "nogging", wall.id) >>
  IN Flatten([i \in 1..(Len(unique) - 1) |-> Nog(i)])

addNoggingsWithOpenings(wall, dir, p, studPositions, zones) ==
  LET studWidth == p.studWidth
      studDepth == p.studDepth
      plateThick == studWidth
      noggingY == (plateThick + p.wallHeight - plateThick * 2) \div 2
      allPositions ==
        SortNums(studPositions \o
                 Flatten([n \in 1..Len(zones) |->
                            << zones[n].left, zones[n].right,
                               zones[n].left + studWidth, zones[n].right - studWidth >>]))
      keep == {i \in 1..Len(allPositions) :
                 i = 1 \/ allPositions[i] - allPositions[i - 1] > EPS}
      unique == SelectSeq([i \in 1..Len(allPositions) |-> <<i, allPositions[i]>>],
                          LAMBDA e : e[1] \in keep)
      Nog(i) ==
        LET t1 == unique[i][2]
            t2 == unique[i + 1][2]
            insideOpening == \E n \in 1..Len(zones) :
                               t1 >= zones[n].left - EPS /\ t2 <= zones[n].right + EPS
            spansOpening == \E n \in 1..Len(zones) :
                              t1 < zones[n].left - EPS /\ t2 > zones[n].right + EPS
        IN IF t2 - t1 < studDepth + EPS THEN <<>>
           ELSE IF insideOpening THEN <<>>
           ELSE IF spansOpening THEN <<>>
           ELSE << Member(OnWall(wall, dir, t1, noggingY), OnWall(wall, dir, t2, noggingY),
                          studWidth, studDepth, "nogging", wall.id) >>
  IN Flatten([i \in 1..(Len(unique) - 1) |-> Nog(i)])

generateWallFrame(wall, dir, p, os, juncs) ==
  LET plateThick == p.studWidth
  IN IF dir.length < MinWallLength THEN <<>>
     ELSE
       LET plates == << createPlate(wall, p, "bottom"),
                        createPlate(wall, p, "top"),
                        Member(Pt3(wall.start.x, p.wallHeight - plateThick, wall.start.z),
                               Pt3(wall.end.x, p.wallHeight - plateThick, wall.end.z),
                               plateThick, p.studDepth, "double_top_plate", wall.id) >>
           zones == buildOpeningZones(os, plateThick)
           studPositions == computeStudPositionsOC(dir.length, p.studSpacing)
           junctionPositions == junctionPositionsOf(wall, dir, p, juncs, studPositions)
           studs == Flatten([n \in 1..Len(studPositions) |->
                      placeStud(wall, dir, p, zones, junctionPositions, studPositions[n])])
           opens == Flatten([n \in 1..Len(zones) |-> frameOpening(wall, dir, p, zones[n])])
           nogs == IF p.noggings
                   THEN addNoggingsWithOpenings(wall, dir, p, studPositions, zones)
                   ELSE <<>>
       IN plates \o studs \o opens \o nogs

----------------------------------------------------------------------------
(* Junction framing (corners and T-intersections) *)

effectiveDepth(w, p) ==
  IF w.wallType = "exterior" THEN p.exteriorStudDepth ELSE p.studDepth

\* the corner stud moved along the wall instead of along its normal
cornerFraming_alongWall(junc, ws, p) ==
  LET studBottom == p.studWidth
      studTop == p.wallHeight - p.studWidth * 2
      One(n) ==
        LET w == WallById(ws, junc.wallIds[n])
            d == computeWallDir(w)
            depth == effectiveDepth(w, p)
            bx == junc.point.x + DirXTimes(d, depth)
            bz == junc.point.z + DirZTimes(d, depth)
        IN IF studTop > studBottom + EPS
           THEN << Member(Pt3(bx, studBottom, bz), Pt3(bx, studTop, bz),
                          p.studWidth, depth, "corner_stud", w.id) >>
           ELSE <<>>
  IN Flatten([n \in 1..Len(junc.wallIds) |-> One(n)])

\* the corner branch of the loop body, for one junction
cornerFraming(junc, ws, p) ==
  LET studBottom == p.studWidth
      studTop == p.wallHeight - p.studWidth * 2
      One(n) ==
        LET w == WallById(ws, junc.wallIds[n])
            d == computeWallDir(w)
            depth == effectiveDepth(w, p)
            bx == junc.point.x + NormXTimes(d, depth)
            bz == junc.point.z + NormZTimes(d, depth)
        IN IF studTop > studBottom + EPS
           THEN << Member(Pt3(bx, studBottom, bz), Pt3(bx, studTop, bz),
                          p.studWidth, depth, "corner_stud", w.id) >>
           ELSE <<>>
  IN Flatten([n \in 1..Len(junc.wallIds) |-> One(n)])

\* the backers offset by the whole depth of the through wall
teeFraming_fullDepth(junc, ws, p) ==
  LET studBottom == p.studWidth
      studTop == p.wallHeight - p.studWidth * 2
      IsThrough(wid) ==
        LET w == WallById(ws, wid)
        IN isPointOnSegmentInterior(junc.point, w.start, w.end)
      throughWalls == SelectSeq(junc.wallIds, IsThrough)
      buttingWalls == SelectSeq(junc.wallIds, LAMBDA wid : ~InSeq(throughWalls, wid))
      Side(tw, td, depth, t, side) ==
        LET offset == depth
            bt == t + side * offset
        IN IF bt < EPS \/ bt > td.length - EPS THEN <<>>
           ELSE IF studTop > studBottom + EPS
           THEN << Member(OnWall(tw, td, bt, studBottom), OnWall(tw, td, bt, studTop),
                          p.studWidth, depth, "partition_backer", tw.id) >>
           ELSE <<>>
      ForThrough(n) ==
        LET tw == WallById(ws, throughWalls[n])
            td == computeWallDir(tw)
            depth == effectiveDepth(tw, p)
            t == projectPointOntoWallT(junc.point, tw, td)
        IN Flatten([b \in 1..Len(buttingWalls) |->
                      Side(tw, td, depth, t, 0 - 1) \o Side(tw, td, depth, t, 1)])
  IN Flatten([n \in 1..Len(throughWalls) |-> ForThrough(n)])

\* the tee branch of the loop body, for one junction
teeFraming(junc, ws, p) ==
  LET studBottom == p.studWidth
      studTop == p.wallHeight - p.studWidth * 2
      IsThrough(wid) ==
        LET w == WallById(ws, wid)
        IN isPointOnSegmentInterior(junc.point, w.start, w.end)
      throughWalls == SelectSeq(junc.wallIds, IsThrough)
      buttingWalls == SelectSeq(junc.wallIds, LAMBDA wid : ~InSeq(throughWalls, wid))
      Side(tw, td, depth, t, side) ==
        LET offset == (depth * 3) \div 4
            bt == t + side * offset
        IN IF bt < EPS \/ bt > td.length - EPS THEN <<>>
           ELSE IF studTop > studBottom + EPS
           THEN << Member(OnWall(tw, td, bt, studBottom), OnWall(tw, td, bt, studTop),
                          p.studWidth, depth, "partition_backer", tw.id) >>
           ELSE <<>>
      ForThrough(n) ==
        LET tw == WallById(ws, throughWalls[n])
            td == computeWallDir(tw)
            depth == effectiveDepth(tw, p)
            t == projectPointOntoWallT(junc.point, tw, td)
        IN Flatten([b \in 1..Len(buttingWalls) |->
                      Side(tw, td, depth, t, 0 - 1) \o Side(tw, td, depth, t, 1)])
  IN Flatten([n \in 1..Len(throughWalls) |-> ForThrough(n)])

generateJunctionFraming(juncs, ws, p) ==
  Flatten([j \in 1..Len(juncs) |->
             IF juncs[j].type = "corner"
             THEN cornerFraming(juncs[j], ws, p)
             ELSE teeFraming(juncs[j], ws, p)])

----------------------------------------------------------------------------
(* Roof generation *)

NoRoof == [type |-> "null"]

\* Math.tan(pitchAngle * Math.PI / 180), in thousandths
TanMilli(deg) ==
  CASE deg = 10 -> 176
    [] deg = 30 -> 577
    [] deg = 45 -> 1000
    [] deg = 60 -> 1732

\* Math.tan(pitchRad) * v
TanTimes(deg, v) == (TanMilli(deg) * v) \div 1000

\* Math.round(a / b) for a >= 0, b > 0
RoundDiv(a, b) == (2 * a + b) \div (2 * b)

SetMin(S) == CHOOSE v \in S : \A u \in S : v <= u
SetMax(S) == CHOOSE v \in S : \A u \in S : v >= u

RoofMember(s, e, w, d, ty) == Member(s, e, w, d, ty, "")

flatRoof(p, minX, maxX, minZ, maxZ) ==
  LET roof == p.roof
      wallHeight == p.wallHeight
      overhang == roof.overhang
      spanX == maxX - minX
      spanZ == maxZ - minZ
      joistAlongZ == spanZ <= spanX
      secondarySpan == IF joistAlongZ THEN spanX ELSE spanZ
      joistCount == Max2(1, RoundDiv(secondarySpan, p.studSpacing))
      Joist(n) ==
        LET off == ((n - 1) * secondarySpan) \div joistCount
        IN IF joistAlongZ
           THEN RoofMember(Pt3(minX + off, wallHeight, minZ - overhang),
                           Pt3(minX + off, wallHeight, maxZ + overhang),
                           roof.rafterDepth, roof.rafterWidth, "ceiling_joist")
           ELSE RoofMember(Pt3(minX - overhang, wallHeight, minZ + off),
                           Pt3(maxX + overhang, wallHeight, minZ + off),
                           roof.rafterDepth, roof.rafterWidth, "ceiling_joist")
  IN [n \in 1..(joistCount + 1) |-> Joist(n)] \o
     << RoofMember(Pt3(minX - overhang, wallHeight, minZ - overhang),
                   Pt3(maxX + overhang, wallHeight, minZ - overhang),
                   roof.rafterDepth, p.studWidth, "fascia"),
        RoofMember(Pt3(minX - overhang, wallHeight, maxZ + overhang),
                   Pt3(maxX + overhang, wallHeight, maxZ + overhang),
                   roof.rafterDepth, p.studWidth, "fascia"),
        RoofMember(Pt3(minX - overhang, wallHeight, minZ - overhang),
                   Pt3(minX - overhang, wallHeight, maxZ + overhang),
                   roof.rafterDepth, p.studWidth, "fascia"),
        RoofMember(Pt3(maxX + overhang, wallHeight, minZ - overhang),
                   Pt3(maxX + overhang, wallHeight, maxZ + overhang),
                   roof.rafterDepth, p.studWidth, "fascia") >>

\* the north rafters ending on the wall line, without the overhang
gableRoofX_northNoOverhang(p, minX, maxX, minZ, maxZ) ==
  LET roof == p.roof
      wallHeight == p.wallHeight
      overhang == roof.overhang
      halfSpan == (maxZ - minZ) \div 2
      ridgeHeight == wallHeight + TanTimes(roof.pitchAngle, halfSpan)
      ridgeMidZ == (minZ + maxZ) \div 2
      spanX == maxX - minX
      rafterCount == Max2(1, RoundDiv(spanX, p.studSpacing))
      Pair(n) ==
        LET x == minX + ((n - 1) * spanX) \div rafterCount
        IN << RoofMember(Pt3(x, wallHeight, minZ - overhang), Pt3(x, ridgeHeight, ridgeMidZ),
                         roof.rafterWidth, roof.rafterDepth, "rafter"),
              RoofMember(Pt3(x, ridgeHeight, ridgeMidZ), Pt3(x, wallHeight, maxZ),
                         roof.rafterWidth, roof.rafterDepth, "rafter"),
              RoofMember(Pt3(x, wallHeight, minZ), Pt3(x, wallHeight, maxZ),
                         roof.rafterWidth, roof.rafterDepth, "ceiling_joist") >>
  IN << RoofMember(Pt3(minX - overhang, ridgeHeight, ridgeMidZ),
                   Pt3(maxX + overhang, ridgeHeight, ridgeMidZ),
                   (roof.rafterWidth * 3) \div 2, (roof.rafterDepth * 6) \div 5, "ridge_beam") >>
     \o Flatten([n \in 1..(rafterCount + 1) |-> Pair(n)])

\* the loop stopping one pair short: "i < rafterCount"
gableRoofX_countPairs(p, minX, maxX, minZ, maxZ) ==
  LET roof == p.roof
      wallHeight == p.wallHeight
      overhang == roof.overhang
      ridgeWidth == (roof.rafterWidth * 3) \div 2
      ridgeDepth == (roof.rafterDepth * 6) \div 5
      halfSpan == (maxZ - minZ) \div 2
      ridgeHeight == wallHeight + TanTimes(roof.pitchAngle, halfSpan)
      ridgeMidZ == (minZ + maxZ) \div 2
      spanX == maxX - minX
      rafterCount == Max2(1, RoundDiv(spanX, p.studSpacing))
      Pair(n) ==
        LET x == minX + ((n - 1) * spanX) \div rafterCount
        IN << RoofMember(Pt3(x, wallHeight, minZ - overhang), Pt3(x, ridgeHeight, ridgeMidZ),
                         roof.rafterWidth, roof.rafterDepth, "rafter"),
              RoofMember(Pt3(x, ridgeHeight, ridgeMidZ), Pt3(x, wallHeight, maxZ + overhang),
                         roof.rafterWidth, roof.rafterDepth, "rafter"),
              RoofMember(Pt3(x, wallHeight, minZ), Pt3(x, wallHeight, maxZ),
                         roof.rafterWidth, roof.rafterDepth, "ceiling_joist") >>
           \o (IF halfSpan > mm(1000)
               THEN LET collarY == wallHeight + (TanMilli(roof.pitchAngle) * halfSpan * 6) \div 10000
                        collarHalfZ == (halfSpan * 4) \div 10
                    IN << RoofMember(Pt3(x, collarY, ridgeMidZ - collarHalfZ),
                                     Pt3(x, collarY, ridgeMidZ + collarHalfZ),
                                     p.studWidth, p.studDepth, "collar_tie") >>
               ELSE <<>>)
  IN << RoofMember(Pt3(minX - overhang, ridgeHeight, ridgeMidZ),
                   Pt3(maxX + overhang, ridgeHeight, ridgeMidZ),
                   ridgeWidth, ridgeDepth, "ridge_beam") >>
     \o Flatten([n \in 1..rafterCount |-> Pair(n)])
     \o << RoofMember(Pt3(minX - overhang, wallHeight, minZ - overhang),
                      Pt3(maxX + overhang, wallHeight, minZ - overhang),
                      p.studWidth, roof.rafterDepth, "fascia"),
           RoofMember(Pt3(minX - overhang, wallHeight, maxZ + overhang),
                      Pt3(maxX + overhang, wallHeight, maxZ + overhang),
                      p.studWidth, roof.rafterDepth, "fascia") >>

gableRoofX(p, minX, maxX, minZ, maxZ) ==
  LET roof == p.roof
      wallHeight == p.wallHeight
      overhang == roof.overhang
      ridgeWidth == (roof.rafterWidth * 3) \div 2
      ridgeDepth == (roof.rafterDepth * 6) \div 5
      halfSpan == (maxZ - minZ) \div 2
      ridgeHeight == wallHeight + TanTimes(roof.pitchAngle, halfSpan)
      ridgeMidZ == (minZ + maxZ) \div 2
      spanX == maxX - minX
      rafterCount == Max2(1, RoundDiv(spanX, p.studSpacing))
      Pair(n) ==
        LET x == minX + ((n - 1) * spanX) \div rafterCount
        IN << RoofMember(Pt3(x, wallHeight, minZ - overhang), Pt3(x, ridgeHeight, ridgeMidZ),
                         roof.rafterWidth, roof.rafterDepth, "rafter"),
              RoofMember(Pt3(x, ridgeHeight, ridgeMidZ), Pt3(x, wallHeight, maxZ + overhang),
                         roof.rafterWidth, roof.rafterDepth, "rafter"),
              RoofMember(Pt3(x, wallHeight, minZ), Pt3(x, wallHeight, maxZ),
                         roof.rafterWidth, roof.rafterDepth, "ceiling_joist") >>
           \o (IF halfSpan > mm(1000)
               THEN LET collarY == wallHeight + (TanMilli(roof.pitchAngle) * halfSpan * 6) \div 10000
                        collarHalfZ == (halfSpan * 4) \div 10
                    IN << RoofMember(Pt3(x, collarY, ridgeMidZ - collarHalfZ),
                                     Pt3(x, collarY, ridgeMidZ + collarHalfZ),
                                     p.studWidth, p.studDepth, "collar_tie") >>
               ELSE <<>>)
  IN << RoofMember(Pt3(minX - overhang, ridgeHeight, ridgeMidZ),
                   Pt3(maxX + overhang, ridgeHeight, ridgeMidZ),
                   ridgeWidth, ridgeDepth, "ridge_beam") >>
     \o Flatten([n \in 1..(rafterCount + 1) |-> Pair(n)])
     \o << RoofMember(Pt3(minX - overhang, wallHeight, minZ - overhang),
                      Pt3(maxX + overhang, wallHeight, minZ - overhang),
                      p.studWidth, roof.rafterDepth, "fascia"),
           RoofMember(Pt3(minX - overhang, wallHeight, maxZ + overhang),
                      Pt3(maxX + overhang, wallHeight, maxZ + overhang),
                      p.studWidth, roof.rafterDepth, "fascia") >>

gableRoofZ(p, minX, maxX, minZ, maxZ) ==
  LET roof == p.roof
      wallHeight == p.wallHeight
      overhang == roof.overhang
      ridgeWidth == (roof.rafterWidth * 3) \div 2
      ridgeDepth == (roof.rafterDepth * 6) \div 5
      halfSpan == (maxX - minX) \div 2
      ridgeHeight == wallHeight + TanTimes(roof.pitchAngle, halfSpan)
      ridgeMidX == (minX + maxX) \div 2
      spanZ == maxZ - minZ
      rafterCount == Max2(1, RoundDiv(spanZ, p.studSpacing))
      Pair(n) ==
        LET z == minZ + ((n - 1) * spanZ) \div rafterCount
        IN << RoofMember(Pt3(minX - overhang, wallHeight, z), Pt3(ridgeMidX, ridgeHeight, z),
                         roof.rafterWidth, roof.rafterDepth, "rafter"),
              RoofMember(Pt3(ridgeMidX, ridgeHeight, z), Pt3(maxX + overhang, wallHeight, z),
                         roof.rafterWidth, roof.rafterDepth, "rafter"),
              RoofMember(Pt3(minX, wallHeight, z), Pt3(maxX, wallHeight, z),
                         roof.rafterWidth, roof.rafterDepth, "ceiling_joist") >>
           \o (IF halfSpan > mm(1000)
               THEN LET collarY == wallHeight + (TanMilli(roof.pitchAngle) * halfSpan * 6) \div 10000
                        collarHalfX == (halfSpan * 4) \div 10
                    IN << RoofMember(Pt3(ridgeMidX - collarHalfX, collarY, z),
                                     Pt3(ridgeMidX + collarHalfX, collarY, z),
                                     p.studWidth, p.studDepth, "collar_tie") >>
               ELSE <<>>)
  IN << RoofMember(Pt3(ridgeMidX, ridgeHeight, minZ - overhang),
                   Pt3(ridgeMidX, ridgeHeight, maxZ + overhang),
                   ridgeWidth, ridgeDepth, "ridge_beam") >>
     \o Flatten([n \in 1..(rafterCount + 1) |-> Pair(n)])
     \o << RoofMember(Pt3(minX - overhang, wallHeight, minZ - overhang),
                      Pt3(minX - overhang, wallHeight, maxZ + overhang),
                      p.studWidth, roof.rafterDepth, "fascia"),
           RoofMember(Pt3(maxX + overhang, wallHeight, minZ - overhang),
                      Pt3(maxX + overhang, wallHeight, maxZ + overhang),
                      p.studWidth, roof.rafterDepth, "fascia") >>

exteriorWalls(ws) == SelectSeq(ws, LAMBDA w : w.wallType = "exterior")

\* the bounding box <<minX, maxX, minZ, maxZ>> of the exterior walls' endpoints
boundingBox(ext) ==
  LET xs == {ext[n].start.x : n \in 1..Len(ext)} \cup {ext[n].end.x : n \in 1..Len(ext)}
      zs == {ext[n].start.z : n \in 1..Len(ext)} \cup {ext[n].end.z : n \in 1..Len(ext)}
  IN <<SetMin(xs), SetMax(xs), SetMin(zs), SetMax(zs)>>

generateRoof(ws, p) ==
  LET ext == exteriorWalls(ws)
  IN IF Len(ext) = 0 THEN <<>>
     ELSE LET bb == boundingBox(ext)
          IN IF p.roof.type = "flat" THEN flatRoof(p, bb[1], bb[2], bb[3], bb[4])
             ELSE IF p.roof.ridgeAxis = "x" THEN gableRoofX(p, bb[1], bb[2], bb[3], bb[4])
             ELSE gableRoofZ(p, bb[1], bb[2], bb[3], bb[4])

----------------------------------------------------------------------------
(* Inputs: the wall lists, parameters and openings generate is called with *)

\* the most openings one call passes
MaxOpenings == 2

\* wall lists (ids are unique within a list, as WallManager issues them)
Layouts ==
  { \* Scenario A: one exterior wall of 4 m
    << Wall("w1", 0, 0, mm(4000), 0, "exterior") >>,
    \* the same wall drawn the other way round
    << Wall("w1", mm(4000), 0, 0, 0, "exterior") >>,
    \* an interior wall of 1.3 m along z: the last bay is below a quarter spacing
    << Wall("w1", 0, 0, 0, mm(1300), "interior") >>,
    \* 1.203 m: the on-center grid stops within EPS of the wall end
    << Wall("w1", 0, 0, mm(1203), 0, "exterior") >>,
    \* 0.1 m: shorter than a quarter spacing
    << Wall("w1", mm(1000), mm(1000), mm(1100), mm(1000), "interior") >>,
    \* degenerate walls: length 0 and length 8 mm
    << Wall("w1", mm(500), mm(500), mm(500), mm(500), "exterior") >>,
    << Wall("w1", 0, 0, mm(8), 0, "interior") >>,
    \* Scenario B: rectangular exterior footprint (0,0)-(10,8)
    << Wall("w1", 0, 0, mm(10000), 0, "exterior"),
       Wall("w2", mm(10000), 0, mm(10000), mm(8000), "exterior"),
       Wall("w3", mm(10000), mm(8000), 0, mm(8000), "exterior"),
       Wall("w4", 0, mm(8000), 0, 0, "exterior") >>,
    \* an L corner of an exterior and an interior wall
    << Wall("w1", 0, 0, mm(4000), 0, "exterior"),
       Wall("w2", mm(4000), 0, mm(4000), mm(3000), "interior") >>,
    \* a tee: an interior wall butting into the span of an exterior wall
    << Wall("w1", 0, 0, mm(4000), 0, "exterior"),
       Wall("w2", mm(1200), 0, mm(1200), mm(2000), "interior") >>,
    \* a wall and a zero-length wall on its end point
    << Wall("w1", 0, 0, mm(4000), 0, "exterior"),
       Wall("w2", mm(4000), 0, mm(4000), 0, "interior") >>,
    \* a wall and a 8 mm wall starting on its start point
    << Wall("w2", 0, 0, 0, mm(8), "interior"),
       Wall("w1", 0, 0, mm(4000), 0, "exterior") >>,
    \* a wall and a zero-length wall on its span
    << Wall("w1", 0, 0, mm(4000), 0, "exterior"),
       Wall("w2", mm(1000), 0, mm(1000), 0, "interior") >>,
    \* a tee between two on-center positions of the through wall
    << Wall("w1", 0, 0, mm(4000), 0, "exterior"),
       Wall("w2", mm(1300), 0, mm(1300), mm(2000), "interior") >>,
    \* a corner of two interior walls 30 mm off the span of a third wall
    << Wall("w1", 0, 0, mm(4000), 0, "exterior"),
       Wall("w2", mm(1200), mm(30), mm(1200), mm(2000), "interior"),
       Wall("w3", mm(1200), mm(30), mm(3000), mm(30), "interior") >>,
    \* a wall butting into the span of another 30 mm from its start
    << Wall("w1", 0, 0, mm(4000), 0, "exterior"),
       Wall("w2", mm(30), 0, mm(30), mm(2000), "interior") >>,
    \* three walls ending in one point, and a fourth butting into one of them
    << Wall("w1", 0, 0, mm(2000), 0, "exterior"),
       Wall("w2", mm(2000), 0, mm(4000), 0, "exterior"),
       Wall("w3", mm(2000), 0, mm(2000), mm(2000), "interior"),
       Wall("w4", mm(800), 0, mm(800), mm(1500), "interior") >>,
    \* a tee 50 mm from the start of the through wall
    << Wall("w1", 0, 0, mm(4000), 0, "exterior"),
       Wall("w2", mm(50), 0, mm(50), mm(2000), "interior") >>,
    \* two walls butting into the same point of a through wall, one from
    \* either side
    << Wall("w1", 0, mm(2000), mm(4000), mm(2000), "interior"),
       Wall("w2", mm(2000), mm(2000), mm(2000), mm(4000), "interior"),
       Wall("w3", mm(2000), mm(2000), mm(2000), 0, "interior") >>,
    \* no walls
    << >> }

Opening(id, wallId, ty, position, width, height, sillHeight) ==
  [id |-> id, wallId |-> wallId, type |-> ty, position |-> position,
   width |-> width, height |-> height, sillHeight |-> sillHeight]

\* the openings a caller may pass, in the order the caller holds them
OpeningPool ==
  << \* Scenario C: a window in the middle of a 4 m wall
     Opening("o1", "w1", "window", mm(2000), mm(900), mm(1200), mm(900)),
     \* a door to the left of it
     Opening("o2", "w1", "door", mm(700), mm(900), mm(2000), 0),
     \* an opening on a wall that is not in the wall list
     Opening("o3", "w9", "window", mm(1000), mm(900), mm(1200), mm(900)),
     \* a window of 6 m: wider than every wall of 4 m or less
     Opening("o4", "w1", "window", mm(2000), mm(6000), mm(1200), mm(900)),
     \* a door on the second wall
     Opening("o5", "w2", "door", mm(1500), mm(800), mm(2000), 0),
     \* a window from the floor up to 110 mm below the top plate
     Opening("o6", "w1", "window", mm(3000), mm(900), mm(2200), 0),
     \* a window whose right edge is 2 mm past the on-center position 2.4 m
     \* and whose head, 2.4 m above the floor, is above the top plate
     Opening("o7", "w1", "window", mm(1952), mm(900), mm(1500), mm(900)) >>

\* the sub-sequences of the pool with at most MaxOpenings openings
OpeningLists ==
  { SelectSeq([n \in 1..Len(OpeningPool) |-> <<n, OpeningPool[n]>>],
              LAMBDA e : e[1] \in S)
      : S \in {T \in SUBSET (1..Len(OpeningPool)) : Cardinality(T) <= MaxOpenings} }

OpeningsOf(list) == [n \in 1..Len(list) |-> list[n][2]]

RoofChoices ==
  { NoRoof,
    [type |-> "gable", pitchAngle |-> 30, overhang |-> mm(300), ridgeAxis |-> "x",
     rafterWidth |-> mm(45), rafterDepth |-> mm(145)],
    [type |-> "gable", pitchAngle |-> 45, overhang |-> 0, ridgeAxis |-> "z",
     rafterWidth |-> mm(45), rafterDepth |-> mm(145)],
    [type |-> "flat", pitchAngle |-> 30, overhang |-> mm(300), ridgeAxis |-> "x",
     rafterWidth |-> mm(45), rafterDepth |-> mm(145)] }

\* parameter values within the ranges of the control panel's sliders
ParamChoices ==
  { [studSpacing |-> sp, wallHeight |-> mm(2400), studWidth |-> mm(45),
     studDepth |-> mm(95), exteriorStudDepth |-> mm(145),
     noggings |-> ng, roof |-> rf]
      : sp \in {mm(600), mm(400)}, ng \in BOOLEAN, rf \in RoofChoices }

----------------------------------------------------------------------------
(* WallManager: its walls and openings Maps in insertion order, and the     *)
(* counters nextId and nextOpeningId its ids are made from ("wall-3" is 3)  *)

NewManager == [walls |-> <<>>, openings |-> <<>>, nextId |-> 1, nextOpeningId |-> 1]

\* what the onChange listener has been called with during the last
\* operation, and the number of operations so far
NoCalls == [op |-> "none", calls |-> <<>>, count |-> 0]

----------------------------------------------------------------------------
(* main.ts: the state of the page after the module body has run *)

\* the delay of regenerateDebounced, 80 ms, in ticks of 40 ms
DebounceTicks == 2

PHASE_ORDER == << "exterior", "interior", "openings", "roof", "done" >>

\* params is the position of a slider of the control panel, one of two;
\* timers are the pending setTimeout callbacks with the ticks left;
\* pending are the regenerate calls awaiting apiClient.generate, with what
\* they read; frameGroup are the children of sceneManager.frameGroup
Startup ==
  [currentPhase |-> "exterior",
   footprintEnabled |-> TRUE, drawingEnabled |-> FALSE, openingEnabled |-> FALSE,
   useApi |-> FALSE, health |-> "pending",
   regenerateTimer |-> 0, timers |-> {},
   params |-> 0,
   pending |-> <<>>, frameGroup |-> <<>>]

\* what an observer of the page has seen: the number of inputs of the user
\* (clicks, slider moves, tool gestures), the ticks since the last
\* onParamsChange (up to DebounceTicks), the number of changes of the current
\* burst and of timer callbacks since the last change (up to 2, and until
\* time passes with no timer pending), whether the parameters have changed
\* since a regenerate last read them, and whether an API call has failed
NoLog ==
  [inputs |-> 0, sinceChange |-> DebounceTicks, burst |-> 0, fired |-> 0,
   stale |-> FALSE, everFailed |-> FALSE]

----------------------------------------------------------------------------
(* generate(walls, params, openings), one action per step of its body *)

\* the openings not filtered by wall
wallOpeningsOf_all(os, wall) == SortOpenings(os)

wallOpeningsOf(os, wall) ==
  SortOpenings(SelectSeq(os, LAMBDA o : o.wallId = wall.id))

\* the caller's parameters passed on without the substitution
wallParamsOf_shared(wall, p) == p

wallParamsOf(wall, p) ==
  IF wall.wallType = "exterior"
  THEN [p EXCEPT !.studDepth = p.exteriorStudDepth]
  ELSE p

NoFrame == [members |-> <<>>, sourceWalls |-> <<>>]

\* the locals of computeStudPositionsOC while no call of it is running
NoLayout == [pc |-> "idle", wallLength |-> 0, positions |-> <<>>, pos |-> 0]

Init ==
  /\ walls \in Layouts
  /\ params \in ParamChoices
  /\ openings \in {OpeningsOf(l) : l \in OpeningLists}
  /\ shift = Pt(0, 0)
  /\ pc = "start"
  /\ wi = 1
  /\ junctions = <<>>
  /\ junctionsShifted = <<>>
  /\ members = <<>>
  /\ frame = NoFrame
  /\ oc = NoLayout
  /\ wm = NewManager
  /\ notified = NoCalls
  /\ app = Startup
  /\ log = NoLog

\* const junctions = this.detectJunctions(walls)
DetectJunctions ==
  /\ pc = "start"
  /\ junctions' = detectJunctions(walls)
  /\ pc' = "walls"
  /\ UNCHANGED <<pageVars, oc, walls, params, openings, shift, wi, junctionsShifted, members, frame>>

\* one iteration of "for (const wall of walls)"
FrameWall ==
  /\ pc = "walls"
  /\ wi <= Len(walls)
  /\ LET wall == walls[wi]
     IN members' = members \o
          generateWallFrame(wall, computeWallDir(wall), wallParamsOf(wall, params),
                            wallOpeningsOf(openings, wall), junctions)
  /\ wi' = wi + 1
  /\ UNCHANGED <<pageVars, oc, walls, params, openings, shift, pc, junctions, junctionsShifted, frame>>

\* members.push(...this.generateJunctionFraming(...))
JunctionFraming ==
  /\ pc = "walls"
  /\ wi > Len(walls)
  /\ members' = members \o generateJunctionFraming(junctions, walls, params)
  /\ pc' = "roof"
  /\ UNCHANGED <<pageVars, oc, walls, params, openings, shift, wi, junctions, junctionsShifted, frame>>

\* if (params.roof) members.push(...this.generateRoof(walls, params))
Roof ==
  /\ pc = "roof"
  /\ members' = IF params.roof # NoRoof
                THEN members \o generateRoof(walls, params)
                ELSE members
  /\ pc' = "return"
  /\ UNCHANGED <<pageVars, oc, walls, params, openings, shift, wi, junctions, junctionsShifted, frame>>

\* return { members, sourceWalls: walls }
Return ==
  /\ pc = "return"
  /\ frame' = [members |-> members, sourceWalls |-> walls]
  /\ pc' = "done"
  /\ UNCHANGED <<pageVars, oc, walls, params, openings, shift, wi, junctions, junctionsShifted, members>>

Next == DetectJunctions \/ FrameWall \/ JunctionFraming \/ Roof \/ Return

Spec == Init /\ [][Next]_vars

\* the whole of generate as one function of its arguments
generate(ws, p, os) ==
  LET juncs == detectJunctions(ws)
  IN [members |->
        Flatten([n \in 1..Len(ws) |->
                   generateWallFrame(ws[n], computeWallDir(ws[n]), wallParamsOf(ws[n], p),
                                     wallOpeningsOf(os, ws[n]), juncs)])
        \o generateJunctionFraming(juncs, ws, p)
        \o (IF p.roof # NoRoof THEN generateRoof(ws, p) ELSE <<>>),
      sourceWalls |-> ws]

Done == pc = "done"

\* the actions compute what the function computes
GenerateIsFunction == Done => frame = generate(walls, params, openings)

----------------------------------------------------------------------------
(* Vocabulary of the properties.  Walls are axis-aligned: the length is the *)
(* coordinate span and the unit direction is a pair of signs.               *)

Sgn(v) == IF v > 0 THEN 1 ELSE IF v < 0 THEN 0 - 1 ELSE 0

SpanOf(w) == Abs(w.end.x - w.start.x) + Abs(w.end.z - w.start.z)

UnitX(w) == Sgn(w.end.x - w.start.x)
UnitZ(w) == Sgn(w.end.z - w.start.z)

\* the point of wall w at distance t from its start, at height y
PointAt(w, t, y) == Pt3(w.start.x + UnitX(w) * t, y, w.start.z + UnitZ(w) * t)

\* the distance from the start of w, along w, of the plan position of q
AlongOf(w, q) == (q.x - w.start.x) * UnitX(w) + (q.z - w.start.z) * UnitZ(w)

\* the depth the wall framer uses for wall w
DepthOf(w) == IF w.wallType = "exterior" THEN params.exteriorStudDepth ELSE params.studDepth

WallIndices == 1..Len(walls)
FramedWalls == {n \in WallIndices : SpanOf(walls[n]) >= MinWallLength}

\* the openings of the call that are on wall w
OpeningsOn(w) == {k \in 1..Len(openings) : openings[k].wallId = w.id}
LeftOf(o) == o.position - o.width \div 2
RightOf(o) == o.position + o.width \div 2

MembersOf(w) == SelectSeq(frame.members, LAMBDA m : m.wallId = w.id)
CountType(ms, ty) == Len(SelectSeq(ms, LAMBDA m : m.type = ty))
CountEq(ms, e) == Len(SelectSeq(ms, LAMBDA m : m = e))

PlateTypes == {"bottom_plate", "top_plate", "double_top_plate"}

----------------------------------------------------------------------------
\* C1: every wall of length >= 0.01 m gets exactly three plates carrying its
\* id -- one bottom_plate at y = 0, one top_plate at y = wallHeight -
\* 2*studWidth, one double_top_plate at y = wallHeight - studWidth -- each
\* from wall.start to wall.end with cross-section (studWidth, effective
\* studDepth); so the wall has at least 3 members, whatever its openings.
C1_ThreePlates ==
  Done =>
    \A n \in FramedWalls :
      LET w == walls[n]
          ms == MembersOf(w)
          Plate(y, ty) == Member(Pt3(w.start.x, y, w.start.z), Pt3(w.end.x, y, w.end.z),
                                 params.studWidth, DepthOf(w), ty, w.id)
      IN /\ Len(SelectSeq(ms, LAMBDA m : m.type \in PlateTypes)) = 3
         /\ CountEq(ms, Plate(0, "bottom_plate")) = 1
         /\ CountEq(ms, Plate(params.wallHeight - 2 * params.studWidth, "top_plate")) = 1
         /\ CountEq(ms, Plate(params.wallHeight - params.studWidth, "double_top_plate")) = 1
         /\ Len(ms) >= 3

\* a framed wall with an opening that spans it entirely has been generated
C1_Witness ==
  /\ Done
  /\ \E n \in FramedWalls : \E k \in OpeningsOn(walls[n]) :
       /\ LeftOf(openings[k]) <= 0
       /\ RightOf(openings[k]) >= SpanOf(walls[n])
       /\ CountType(MembersOf(walls[n]), "bottom_plate") = 1

----------------------------------------------------------------------------
\* C2: a wall shorter than 0.01 m contributes no members: no member of the
\* returned frame carries its id, neither from wall framing nor from
\* junction framing.
C2_DegenerateWallNoMembers ==
  Done =>
    \A n \in WallIndices \ FramedWalls : Len(MembersOf(walls[n])) = 0

----------------------------------------------------------------------------
\* the distances from the wall start of the studs emitted for wall w, in
\* the order of emission
StudPositionsOf(w) ==
  LET studs == SelectSeq(MembersOf(w), LAMBDA m : m.type = "stud")
  IN [n \in 1..Len(studs) |-> AlongOf(w, studs[n].start)]

\* a wall list of one framed wall, so without junctions, and without openings on it
PlainWall ==
  /\ Len(walls) = 1
  /\ 1 \in FramedWalls
  /\ OpeningsOn(walls[1]) = {}
  /\ junctions = <<>>

\* every pair of consecutive studs but the last is studSpacing apart
InteriorPairsOnCenter(sp) ==
  \A n \in 1..(Len(sp) - 2) : sp[n + 1] - sp[n] = params.studSpacing

LastGap(sp) == sp[Len(sp)] - sp[Len(sp) - 1]

\* C3 as stated: on a wall without openings and junctions consecutive studs
\* are studSpacing apart, except the last pair, whose distance is in
\* [0, studSpacing].
C3_LastGapWithinSpacing ==
  (Done /\ PlainWall) =>
    LET sp == StudPositionsOf(walls[1])
    IN /\ InteriorPairsOnCenter(sp)
       /\ Len(sp) >= 2 => (LastGap(sp) >= 0 /\ LastGap(sp) <= params.studSpacing)

\* C3 amended: ... except the last pair, whose distance is greater than a
\* quarter of studSpacing and at most the larger of 1.25 * studSpacing and
\* studSpacing + EPS (a last bay below a quarter spacing is merged into the
\* bay before it, and the grid stops EPS short of the wall end).
C3_LastGapMerged ==
  (Done /\ PlainWall) =>
    LET sp == StudPositionsOf(walls[1])
    IN /\ InteriorPairsOnCenter(sp)
       /\ Len(sp) >= 2 =>
            /\ 4 * LastGap(sp) > params.studSpacing
            /\ \/ 4 * LastGap(sp) <= 5 * params.studSpacing
               \/ LastGap(sp) <= params.studSpacing + EPS

\* a plain wall whose last bay was merged: the last two studs are more than
\* studSpacing apart, after at least one on-center pair
C3_Witness ==
  /\ Done
  /\ PlainWall
  /\ LET sp == StudPositionsOf(walls[1])
     IN Len(sp) >= 3 /\ LastGap(sp) > params.studSpacing

----------------------------------------------------------------------------
\* C4: every opening on a wall of length >= 0.01 m gets exactly one header
\* at y = studWidth + sillHeight + height from left = position - width/2 to
\* right = position + width/2, 2*studWidth wide and as deep as the wall's
\* studs; two king_stud at left and right from y = studWidth to wallHeight -
\* 2*studWidth; two trimmer at left + studWidth and right - studWidth from
\* y = studWidth to the header; a window one sill_plate at y = studWidth +
\* sillHeight from trimmer to trimmer, a door none.
C4_OpeningFraming ==
  Done =>
    \A n \in FramedWalls :
      LET w == walls[n]
          ms == MembersOf(w)
          sw == params.studWidth
          d == DepthOf(w)
          top == params.wallHeight - 2 * sw
          windows == {k \in OpeningsOn(w) : openings[k].type = "window"}
      IN /\ CountType(ms, "header") = Cardinality(OpeningsOn(w))
         /\ CountType(ms, "king_stud") = 2 * Cardinality(OpeningsOn(w))
         /\ CountType(ms, "trimmer") = 2 * Cardinality(OpeningsOn(w))
         /\ CountType(ms, "sill_plate") = Cardinality(windows)
         /\ \A k \in OpeningsOn(w) :
              LET o == openings[k]
                  left == LeftOf(o)
                  right == RightOf(o)
                  headerY == sw + o.sillHeight + o.height
                  sillY == sw + o.sillHeight
                  sill == Member(PointAt(w, left + sw, sillY), PointAt(w, right - sw, sillY),
                                 sw, d, "sill_plate", w.id)
              IN /\ CountEq(ms, Member(PointAt(w, left, headerY), PointAt(w, right, headerY),
                                       2 * sw, d, "header", w.id)) = 1
                 /\ CountEq(ms, Member(PointAt(w, left, sw), PointAt(w, left, top),
                                       sw, d, "king_stud", w.id)) = 1
                 /\ CountEq(ms, Member(PointAt(w, right, sw), PointAt(w, right, top),
                                       sw, d, "king_stud", w.id)) = 1
                 /\ CountEq(ms, Member(PointAt(w, left + sw, sw), PointAt(w, left + sw, headerY),
                                       sw, d, "trimmer", w.id)) = 1
                 /\ CountEq(ms, Member(PointAt(w, right - sw, sw), PointAt(w, right - sw, headerY),
                                       sw, d, "trimmer", w.id)) = 1
                 /\ CountEq(ms, sill) = (IF o.type = "window" THEN 1 ELSE 0)

\* a framed wall with a window and a door on it has been generated
C4_Witness ==
  /\ Done
  /\ \E n \in FramedWalls :
       /\ \E k \in OpeningsOn(walls[n]) : openings[k].type = "window"
       /\ \E k \in OpeningsOn(walls[n]) : openings[k].type = "door"
       /\ CountType(MembersOf(walls[n]), "header") = 2

----------------------------------------------------------------------------
\* the openings on w that are wider than w is long
WiderThanWall(w) == {k \in OpeningsOn(w) : openings[k].width > SpanOf(w)}

OpeningMemberTypes == {"king_stud", "trimmer", "header", "sill_plate", "nogging"}

WithinWall(w, m) ==
  /\ AlongOf(w, m.start) >= 0 /\ AlongOf(w, m.start) <= SpanOf(w)
  /\ AlongOf(w, m.end) >= 0 /\ AlongOf(w, m.end) <= SpanOf(w)

\* generate returned a frame for the walls it was given
Returned == frame.sourceWalls = walls

\* C5 as stated: generate raises no fault on an empty wall list, zero-length
\* walls or an opening wider than its wall, and omits the affected
\* members: a wall with an opening wider than itself has no king_stud,
\* trimmer, header, sill_plate or nogging outside [0, wallLength].
C5_NoMemberOutsideWall ==
  Done =>
    /\ Returned
    /\ \A n \in FramedWalls :
         WiderThanWall(walls[n]) # {} =>
           \A i \in 1..Len(MembersOf(walls[n])) :
             LET m == MembersOf(walls[n])[i]
             IN m.type \in OpeningMemberTypes => WithinWall(walls[n], m)

\* C5 amended: generate raises no fault on an empty wall list, zero-length
\* walls or an opening wider than its wall; an empty wall list gives no
\* members and a zero-length wall no wall framing, but an opening wider
\* than its wall is framed like any other: its two king_stud are emitted at
\* position - width/2 and position + width/2, at least one of them outside
\* [0, wallLength].
C5_WideOpeningFramedUnclamped ==
  Done =>
    /\ Returned
    /\ walls = <<>> => frame.members = <<>>
    /\ \A n \in WallIndices :
         SpanOf(walls[n]) = 0 =>
           \A i \in 1..Len(MembersOf(walls[n])) :
             MembersOf(walls[n])[i].type \in {"corner_stud", "partition_backer"}
    /\ \A n \in FramedWalls : \A k \in WiderThanWall(walls[n]) :
         LET w == walls[n]
             sw == params.studWidth
             top == params.wallHeight - 2 * sw
             King(t) == Member(PointAt(w, t, sw), PointAt(w, t, top),
                               sw, DepthOf(w), "king_stud", w.id)
         IN /\ CountEq(MembersOf(w), King(LeftOf(openings[k]))) = 1
            /\ CountEq(MembersOf(w), King(RightOf(openings[k]))) = 1
            /\ \/ ~WithinWall(w, King(LeftOf(openings[k])))
               \/ ~WithinWall(w, King(RightOf(openings[k])))

\* a framed wall with an opening wider than itself has been generated
C5_Witness ==
  /\ Done
  /\ \E n \in FramedWalls :
       /\ WiderThanWall(walls[n]) # {}
       /\ CountType(MembersOf(walls[n]), "king_stud") >= 2

----------------------------------------------------------------------------
\* the openings of the call whose wallId is the id of no wall of the call
Orphans == {k \in 1..Len(openings) : \A n \in WallIndices : walls[n].id # openings[k].wallId}

Without(seq, k) == SubSeq(seq, 1, k - 1) \o SubSeq(seq, k + 1, Len(seq))

\* C6: an opening whose wallId matches no wall is ignored: the call returns
\* the members it returns without that opening.
C6_OrphanOpeningIgnored ==
  Done =>
    \A k \in Orphans :
      frame.members = generate(walls, params, Without(openings, k)).members

\* a call with a framed wall, an opening on it and an opening on no wall
C6_Witness ==
  /\ Done
  /\ Orphans # {}
  /\ \E n \in FramedWalls : OpeningsOn(walls[n]) # {}

----------------------------------------------------------------------------
ScenarioAWalls == << Wall("w1", 0, 0, mm(4000), 0, "exterior") >>

ScenarioA ==
  /\ walls = ScenarioAWalls
  /\ params.wallHeight = mm(2400)
  /\ params.studSpacing = mm(600)
  /\ params.studWidth = mm(45)
  /\ params.studDepth = mm(95)
  /\ params.noggings
  /\ params.roof = NoRoof
  /\ openings = <<>>

\* C8: Scenario A returns exactly 18 members: 8 studs at 0, 0.6, 1.2, 1.8,
\* 2.4, 3.0, 3.6 and 4.0 m, 3 plates and 7 noggings, one per adjacent stud
\* pair.
C8_ScenarioA ==
  (Done /\ ScenarioA) =>
    LET ms == frame.members
        sp == StudPositionsOf(walls[1])
        nogs == SelectSeq(ms, LAMBDA m : m.type = "nogging")
    IN /\ Len(ms) = 18
       /\ sp = << 0, mm(600), mm(1200), mm(1800), mm(2400), mm(3000), mm(3600), mm(4000) >>
       /\ Len(SelectSeq(ms, LAMBDA m : m.type \in PlateTypes)) = 3
       /\ Len(nogs) = 7
       /\ \A n \in 1..7 :
            \E i \in 1..7 : /\ AlongOf(walls[1], nogs[i].start) = sp[n]
                            /\ AlongOf(walls[1], nogs[i].end) = sp[n + 1]

C8_Witness == Done /\ ScenarioA /\ Len(frame.members) > 0

----------------------------------------------------------------------------
CornerJunctions == {j \in 1..Len(junctions) : junctions[j].type = "corner"}

\* the number of walls over all corner junctions
RECURSIVE CornerWallCount(_)
CornerWallCount(j) ==
  IF j = 0 THEN 0
  ELSE CornerWallCount(j - 1) +
       (IF junctions[j].type = "corner" THEN Len(junctions[j].wallIds) ELSE 0)

\* the unit direction of w as the engine has it: zero up to length EPS
DirSignX(w) == IF SpanOf(w) > EPS THEN UnitX(w) ELSE 0
DirSignZ(w) == IF SpanOf(w) > EPS THEN UnitZ(w) ELSE 0

ScenarioBWalls ==
  << Wall("w1", 0, 0, mm(10000), 0, "exterior"),
     Wall("w2", mm(10000), 0, mm(10000), mm(8000), "exterior"),
     Wall("w3", mm(10000), mm(8000), 0, mm(8000), "exterior"),
     Wall("w4", 0, mm(8000), 0, 0, "exterior") >>

\* C9: every corner junction gets exactly one corner_stud per wall meeting
\* there, at the junction point moved along that wall's normal (-dirZ, dirX)
\* by that wall's effective depth, from y = studWidth to y = wallHeight -
\* 2*studWidth; Scenario B (footprint (0,0)-(10,8), no roof, no openings)
\* has 4 corner junctions, 8 corner_stud and no partition_backer.
C9_CornerStuds ==
  Done =>
    LET ms == frame.members
        sw == params.studWidth
        top == params.wallHeight - 2 * sw
    IN /\ CountType(ms, "corner_stud") = CornerWallCount(Len(junctions))
       /\ \A j \in CornerJunctions : \A n \in 1..Len(junctions[j].wallIds) :
            LET w == WallById(walls, junctions[j].wallIds[n])
                bx == junctions[j].point.x - DirSignZ(w) * DepthOf(w)
                bz == junctions[j].point.z + DirSignX(w) * DepthOf(w)
            IN CountEq(ms, Member(Pt3(bx, sw, bz), Pt3(bx, top, bz),
                                  sw, DepthOf(w), "corner_stud", w.id)) = 1
       /\ (walls = ScenarioBWalls /\ openings = <<>> /\ params.roof = NoRoof) =>
            /\ Cardinality(CornerJunctions) = 4
            /\ Len(junctions) = 4
            /\ CountType(ms, "corner_stud") = 8
            /\ CountType(ms, "partition_backer") = 0

C9_Witness ==
  /\ Done
  /\ walls = ScenarioBWalls /\ openings = <<>> /\ params.roof = NoRoof
  /\ CountType(frame.members, "corner_stud") = 8

----------------------------------------------------------------------------
GableX == params.roof.type = "gable" /\ params.roof.ridgeAxis = "x"

ExteriorIndices == {n \in WallIndices : walls[n].wallType = "exterior"}
ExteriorZs == {walls[n].start.z : n \in ExteriorIndices} \cup {walls[n].end.z : n \in ExteriorIndices}

Rafters == SelectSeq(frame.members, LAMBDA m : m.type = "rafter")

\* the mirror image of point q in the plane z = twiceMid / 2
MirrorZ(q, twiceMid) == Pt3(q.x, q.y, twiceMid - q.z)

\* C10: under a gable roof with ridgeAxis x the rafters come in pairs that
\* are mirror images about z = (minZ + maxZ)/2: same x, one end of each at
\* (x, ridgeHeight, (minZ + maxZ)/2), the other at y = wallHeight at z = minZ
\* - overhang and z = maxZ + overhang; ridgeHeight = wallHeight +
\* tan(pitchAngle) * (maxZ - minZ)/2.
C10_RafterPairsMirrored ==
  (Done /\ GableX /\ ExteriorIndices # {}) =>
    LET minZ == SetMin(ExteriorZs)
        maxZ == SetMax(ExteriorZs)
        ridgeHeight == params.wallHeight
                         + (TanMilli(params.roof.pitchAngle) * ((maxZ - minZ) \div 2)) \div 1000
        rs == Rafters
    IN /\ Len(rs) % 2 = 0
       /\ Len(rs) >= 2
       /\ \A n \in 1..(Len(rs) \div 2) :
            LET south == rs[2 * n - 1]
                north == rs[2 * n]
                x == south.start.x
            IN /\ south.start = Pt3(x, params.wallHeight, minZ - params.roof.overhang)
               /\ south.end = Pt3(x, ridgeHeight, (minZ + maxZ) \div 2)
               /\ north.start = Pt3(x, ridgeHeight, (minZ + maxZ) \div 2)
               /\ north.end = Pt3(x, params.wallHeight, maxZ + params.roof.overhang)
               /\ north.end = MirrorZ(south.start, minZ + maxZ)
               /\ north.start = MirrorZ(south.end, minZ + maxZ)

\* the rectangular footprint under a gable roof with ridgeAxis x and an overhang
C10_Witness ==
  /\ Done
  /\ GableX
  /\ params.roof.overhang > 0
  /\ walls = ScenarioBWalls
  /\ Len(Rafters) >= 4

----------------------------------------------------------------------------
(* Vocabulary of the properties about stud placement *)

WallFramingTypes ==
  PlateTypes \cup {"stud", "cripple_stud", "king_stud", "trimmer", "header",
                   "sill_plate", "nogging"}

\* the on-center positions the wall framer computes for wall w
OnCenter(w) == computeStudPositionsOC(SpanOf(w), params.studSpacing)

\* the openings on w whose zone has t strictly inside, with the margin EPS
HitsAt(w, t) ==
  {k \in OpeningsOn(w) :
     t > LeftOf(openings[k]) + EPS /\ t < RightOf(openings[k]) - EPS}

\* the first of them in ascending order of position (the caller's order
\* among openings of equal position)
ZoneAt(w, t) ==
  CHOOSE k \in HitsAt(w, t) :
    \A j \in HitsAt(w, t) :
      \/ openings[k].position < openings[j].position
      \/ openings[k].position = openings[j].position /\ k <= j

\* the members of type ty emitted for w at distance t from its start
TypeAt(w, t, ty) ==
  SelectSeq(MembersOf(w), LAMBDA m : m.type = ty /\ AlongOf(w, m.start) = t)

\* the distance of the plan position of q from the line of w
PerpOf(w, q) ==
  Abs((q.x - w.start.x) * UnitZ(w) - (q.z - w.start.z) * UnitX(w))

\* junction j projects onto w: within EPS of its span and 10*EPS of its line
ProjectsOnto(w, j) ==
  /\ AlongOf(w, junctions[j].point) >= 0 - EPS
  /\ AlongOf(w, junctions[j].point) <= SpanOf(w) + EPS
  /\ PerpOf(w, junctions[j].point) <= 10 * EPS

\* the junctions that suppress the stud of w at t
SuppressingAt(w, t) ==
  {j \in 1..Len(junctions) :
     /\ ProjectsOnto(w, j)
     /\ Abs(t - AlongOf(w, junctions[j].point)) < DepthOf(w) + EPS
     /\ t > EPS
     /\ t < SpanOf(w) - EPS}

\* the full-height stud of w at t
StudAt(w, t) ==
  Member(PointAt(w, t, params.studWidth),
         PointAt(w, t, params.wallHeight - 2 * params.studWidth),
         params.studWidth, DepthOf(w), "stud", w.id)

----------------------------------------------------------------------------
\* C11: every wall-framing member (plates, studs, cripples, king studs,
\* trimmers, headers, sills, noggings) of an exterior wall has depth
\* exteriorStudDepth and of an interior wall depth studDepth, and generate
\* changes neither the caller's params nor the walls nor the openings: no
\* step of generate changes them and the frame returns the wall list.
C11_DepthByWallType ==
  /\ [](Done =>
          /\ frame.sourceWalls = walls
          /\ \A n \in WallIndices : \A i \in 1..Len(frame.members) :
               (/\ frame.members[i].wallId = walls[n].id
                /\ frame.members[i].type \in WallFramingTypes)
                 => frame.members[i].depth =
                      (IF walls[n].wallType = "exterior"
                       THEN params.exteriorStudDepth ELSE params.studDepth))
  /\ [][walls' = walls /\ params' = params /\ openings' = openings]_vars

\* an exterior and an interior wall have been framed with different depths
C11_Witness ==
  /\ Done
  /\ params.studDepth # params.exteriorStudDepth
  /\ \E n \in FramedWalls :
       /\ walls[n].wallType = "exterior"
       /\ \E i \in 1..Len(frame.members) :
            /\ frame.members[i].wallId = walls[n].id
            /\ frame.members[i].type = "stud"
            /\ frame.members[i].depth = params.exteriorStudDepth
  /\ \E n \in FramedWalls :
       /\ walls[n].wallType = "interior"
       /\ \E i \in 1..Len(frame.members) :
            /\ frame.members[i].wallId = walls[n].id
            /\ frame.members[i].type = "stud"
            /\ frame.members[i].depth = params.studDepth

----------------------------------------------------------------------------
\* the list C16 describes: 0, then k * studSpacing while below the wall
\* length, then the wall length; the last on-center position dropped when
\* it is less than a quarter spacing before the wall end
ClaimedPositions(wallLength, studSpacing) ==
  LET below == (wallLength - 1) \div studSpacing
      gap == wallLength - below * studSpacing
      kept == IF below > 0 /\ 4 * gap < studSpacing THEN below - 1 ELSE below
  IN [i \in 1..(kept + 2) |-> IF i = kept + 2 THEN wallLength ELSE (i - 1) * studSpacing]

\* C16: for every wall length >= 0.01 m computeStudPositionsOC returns 0,
\* studSpacing, 2*studSpacing, ... while below the wall length, and last
\* the exact wall length, the last on-center position being replaced by
\* the wall length when less than 25% of studSpacing before it.
C16_PositionsEndAtWallLength ==
  Done =>
    \A n \in FramedWalls :
      /\ OnCenter(walls[n])[1] = 0
      /\ OnCenter(walls[n])[Len(OnCenter(walls[n]))] = SpanOf(walls[n])
      /\ OnCenter(walls[n]) = ClaimedPositions(SpanOf(walls[n]), params.studSpacing)

----------------------------------------------------------------------------
\* C17 as stated: at an on-center position strictly inside an opening zone
\* there is no full-height stud; a cripple_stud from headerY to wallHeight -
\* 2*studWidth iff that span is positive; for a window a cripple_stud from
\* studWidth to sillY iff that span is positive; for a door no lower one.
C17_CrippleFromHeaderY ==
  Done =>
    \A n \in FramedWalls : \A i \in 1..Len(OnCenter(walls[n])) :
      LET w == walls[n]
          t == OnCenter(w)[i]
          sw == params.studWidth
          top == params.wallHeight - 2 * sw
      IN HitsAt(w, t) # {} =>
           LET o == openings[ZoneAt(w, t)]
               headerY == sw + o.sillHeight + o.height
               sillY == sw + o.sillHeight
               wantUpper == top - headerY > 0
               wantLower == o.type = "window" /\ sillY - sw > 0
               upper == Member(PointAt(w, t, headerY), PointAt(w, t, top),
                               sw, DepthOf(w), "cripple_stud", w.id)
               lower == Member(PointAt(w, t, sw), PointAt(w, t, sillY),
                               sw, DepthOf(w), "cripple_stud", w.id)
           IN /\ Len(TypeAt(w, t, "stud")) = 0
              /\ CountEq(MembersOf(w), upper) = (IF wantUpper THEN 1 ELSE 0)
              /\ CountEq(MembersOf(w), lower) = (IF wantLower THEN 1 ELSE 0)
              /\ Len(TypeAt(w, t, "cripple_stud")) =
                   (IF wantUpper THEN 1 ELSE 0) + (IF wantLower THEN 1 ELSE 0)

\* C17 amended: ... a cripple_stud from the top of the doubled header,
\* headerY + 2*studWidth, to wallHeight - 2*studWidth iff that span
\* exceeds EPS; for a window a cripple_stud from studWidth to sillY iff
\* the sill height exceeds EPS; for a door no lower one.
C17_CrippleAboveHeader ==
  Done =>
    \A n \in FramedWalls : \A i \in 1..Len(OnCenter(walls[n])) :
      LET w == walls[n]
          t == OnCenter(w)[i]
          sw == params.studWidth
          top == params.wallHeight - 2 * sw
      IN HitsAt(w, t) # {} =>
           LET o == openings[ZoneAt(w, t)]
               headerY == sw + o.sillHeight + o.height
               sillY == sw + o.sillHeight
               wantUpper == top - (headerY + 2 * sw) > EPS
               wantLower == o.type = "window" /\ sillY - sw > EPS
               upper == Member(PointAt(w, t, headerY + 2 * sw), PointAt(w, t, top),
                               sw, DepthOf(w), "cripple_stud", w.id)
               lower == Member(PointAt(w, t, sw), PointAt(w, t, sillY),
                               sw, DepthOf(w), "cripple_stud", w.id)
           IN /\ Len(TypeAt(w, t, "stud")) = 0
              /\ CountEq(MembersOf(w), upper) = (IF wantUpper THEN 1 ELSE 0)
              /\ CountEq(MembersOf(w), lower) = (IF wantLower THEN 1 ELSE 0)
              /\ Len(TypeAt(w, t, "cripple_stud")) =
                   (IF wantUpper THEN 1 ELSE 0) + (IF wantLower THEN 1 ELSE 0)

\* one wall with an on-center position in a window zone that got both
\* cripples, one in a door zone that got the upper cripple only
C17_Witness ==
  /\ Done
  /\ \E n \in FramedWalls : \E i, j \in 1..Len(OnCenter(walls[n])) :
       LET w == walls[n]
           t == OnCenter(w)[i]
           u == OnCenter(w)[j]
       IN /\ HitsAt(w, t) # {} /\ HitsAt(w, u) # {}
          /\ openings[ZoneAt(w, t)].type = "window"
          /\ openings[ZoneAt(w, u)].type = "door"
          /\ Len(TypeAt(w, t, "cripple_stud")) = 2
          /\ Len(TypeAt(w, u, "cripple_stud")) = 1

----------------------------------------------------------------------------
\* the vertical wall-framing members of w at distance t from its start
FramerVerticalsAt(w, t) ==
  TypeAt(w, t, "stud") \o TypeAt(w, t, "cripple_stud")
    \o TypeAt(w, t, "king_stud") \o TypeAt(w, t, "trimmer")

\* what C18 says of position t of wall w outside the opening zones
PlacedOrSuppressed(w, t) ==
  IF SuppressingAt(w, t) # {}
  THEN Len(FramerVerticalsAt(w, t)) = 0
  ELSE /\ Len(TypeAt(w, t, "stud")) = 1
       /\ CountEq(MembersOf(w), StudAt(w, t)) = 1

\* the same of every on-center position the wall framer computes
PlacementOnComputedPositions ==
  Done =>
    \A n \in FramedWalls : \A i \in 1..Len(OnCenter(walls[n])) :
      HitsAt(walls[n], OnCenter(walls[n])[i]) = {}
        => PlacedOrSuppressed(walls[n], OnCenter(walls[n])[i])

\* C18: an on-center position t outside the opening zones gets no member
\* when it is within studDepth + EPS of the projection of a junction point
\* and EPS < t < wallLength - EPS, and else exactly one stud from y =
\* studWidth to y = wallHeight - 2*studWidth; in particular the positions 0
\* and wallLength always get that stud unless inside an opening zone.
C18_StudOrSuppressed ==
  Done =>
    \A n \in FramedWalls :
      /\ \A i \in 1..Len(OnCenter(walls[n])) :
           HitsAt(walls[n], OnCenter(walls[n])[i]) = {}
             => PlacedOrSuppressed(walls[n], OnCenter(walls[n])[i])
      /\ \A t \in {0, SpanOf(walls[n])} :
           HitsAt(walls[n], t) = {}
             => CountEq(MembersOf(walls[n]), StudAt(walls[n], t)) = 1

----------------------------------------------------------------------------
\* C19: whenever the stud of wall W at on-center position t is suppressed
\* because of a junction, the frame has a corner_stud or partition_backer
\* with wallId = W within studDepth + EPS of t along W.
C19_SuppressedStudReplaced ==
  Done =>
    \A n \in FramedWalls : \A i \in 1..Len(OnCenter(walls[n])) :
      LET w == walls[n]
          t == OnCenter(w)[i]
      IN (HitsAt(w, t) = {} /\ SuppressingAt(w, t) # {}) =>
           \E k \in 1..Len(frame.members) :
             /\ frame.members[k].type \in {"corner_stud", "partition_backer"}
             /\ frame.members[k].wallId = w.id
             /\ Abs(AlongOf(w, frame.members[k].start) - t) < DepthOf(w) + EPS

----------------------------------------------------------------------------
\* the quantized end points of the walls
EndPointKeys ==
  {key(walls[n].start) : n \in WallIndices} \cup {key(walls[n].end) : n \in WallIndices}

\* q lies on the span of w for detection: at least EPS from both ends and
\* less than 2*EPS from its line
OnSpanOf(w, q) ==
  /\ SpanOf(w) >= EPS
  /\ AlongOf(w, q) >= EPS
  /\ AlongOf(w, q) <= SpanOf(w) - EPS
  /\ PerpOf(w, q) < 2 * EPS

\* q is interior to the span of w: along-wall fraction in [0.01, 0.99] and
\* less than 2*EPS from its line
InteriorTo(w, q) ==
  /\ SpanOf(w) >= EPS
  /\ 100 * AlongOf(w, q) >= SpanOf(w)
  /\ 100 * AlongOf(w, q) <= 99 * SpanOf(w)
  /\ PerpOf(w, q) < 2 * EPS

\* the indices of the walls associated with the quantized point k: those
\* with an end point there, and those with another wall's end point there
\* on their span
AssociatedWith(k) ==
  {n \in WallIndices :
     \/ key(walls[n].start) = k
     \/ key(walls[n].end) = k
     \/ \E m \in WallIndices :
          /\ walls[m].id # walls[n].id
          /\ \/ key(walls[m].start) = k /\ OnSpanOf(walls[n], walls[m].start)
             \/ key(walls[m].end) = k /\ OnSpanOf(walls[n], walls[m].end)}

----------------------------------------------------------------------------
(* detectJunctions on a wall set and on the same set moved by a constant    *)
(* offset                                                                   *)

\* wall sets for junction detection; two of them have an end point that is
\* not a whole millimetre
ShiftLayouts ==
  { ScenarioBWalls,
    \* an L corner
    << Wall("w1", 0, 0, mm(4000), 0, "exterior"),
       Wall("w2", mm(4000), 0, mm(4000), mm(3000), "interior") >>,
    \* a tee
    << Wall("w1", 0, 0, mm(4000), 0, "exterior"),
       Wall("w2", mm(1200), 0, mm(1200), mm(2000), "interior") >>,
    \* three walls meeting end to end, one of them also crossed by a fourth
    << Wall("w1", 0, 0, mm(4000), 0, "exterior"),
       Wall("w2", mm(4000), 0, mm(4000), mm(3000), "exterior"),
       Wall("w3", mm(4000), 0, mm(6000), 0, "interior"),
       Wall("w4", mm(5000), 0, mm(5000), mm(1000), "interior") >>,
    \* two walls that do not meet
    << Wall("w1", 0, 0, mm(4000), 0, "exterior"),
       Wall("w2", 0, mm(1000), mm(4000), mm(1000), "interior") >>,
    \* end points 3 mm apart
    << Wall("w1", 0, 0, mm(4000), 0, "exterior"),
       Wall("w2", mm(4003), 0, mm(4003), mm(3000), "interior") >>,
    \* the second wall starts 0.25 mm beyond the end of the first
    << Wall("w1", 0, 0, mm(4000), 0, "exterior"),
       Wall("w2", mm(4000) + 1, 0, mm(4000) + 1, mm(3000), "interior") >>,
    \* the second wall starts 0.5 mm beyond the end of the first
    << Wall("w1", 0, 0, mm(4000), 0, "exterior"),
       Wall("w2", mm(4000) + 2, 0, mm(4000) + 2, mm(3000), "interior") >> }

\* offsets per axis: whole millimetres and fractions of a millimetre
ShiftSteps == {0 - mm(1000), 0 - 1, 0, 1, 2, mm(1), mm(2500)}

translate(ws, off) ==
  [n \in 1..Len(ws) |->
     [ws[n] EXCEPT !.start = Pt(@.x + off.x, @.z + off.z),
                   !.end = Pt(@.x + off.x, @.z + off.z)]]

DefaultParams ==
  [studSpacing |-> mm(600), wallHeight |-> mm(2400), studWidth |-> mm(45),
   studDepth |-> mm(95), exteriorStudDepth |-> mm(145),
   noggings |-> TRUE, roof |-> NoRoof]

InitShift ==
  /\ walls \in ShiftLayouts
  /\ shift \in {Pt(dx, dz) : dx \in ShiftSteps, dz \in ShiftSteps}
  /\ params = DefaultParams
  /\ openings = <<>>
  /\ pc = "start"
  /\ wi = 1
  /\ junctions = <<>>
  /\ junctionsShifted = <<>>
  /\ members = <<>>
  /\ frame = NoFrame
  /\ oc = NoLayout
  /\ wm = NewManager
  /\ notified = NoCalls
  /\ app = Startup
  /\ log = NoLog

DetectOriginal ==
  /\ pc = "start"
  /\ junctions' = detectJunctions(walls)
  /\ pc' = "original"
  /\ UNCHANGED <<pageVars, oc, walls, params, openings, shift, wi, junctionsShifted, members, frame>>

DetectShifted ==
  /\ pc = "original"
  /\ junctionsShifted' = detectJunctions(translate(walls, shift))
  /\ pc' = "both"
  /\ UNCHANGED <<pageVars, oc, walls, params, openings, shift, wi, junctions, members, frame>>

NextShift == DetectOriginal \/ DetectShifted

SpecShift == InitShift /\ [][NextShift]_vars

\* the wall-id group and the classification of every junction
Classification(juncs) ==
  { << {juncs[j].wallIds[n] : n \in 1..Len(juncs[j].wallIds)}, juncs[j].type >>
      : j \in 1..Len(juncs) }

SameJunctions ==
  /\ Len(junctionsShifted) = Len(junctions)
  /\ Classification(junctionsShifted) = Classification(junctions)

WholeMm(v) == v % mm(1) = 0

WallsOnMmGrid ==
  \A n \in WallIndices :
    /\ WholeMm(walls[n].start.x) /\ WholeMm(walls[n].start.z)
    /\ WholeMm(walls[n].end.x) /\ WholeMm(walls[n].end.z)

----------------------------------------------------------------------------
(* WallManager operations.  Each returns the manager after the call and the *)
(* arguments of the onChange calls it made, in order.                       *)

\* this.onChange?.(this.getWalls()), with the openings the listener can read
notify(m) == << [walls |-> m.walls, openings |-> m.openings] >>

addWallSilent(m, start, end, wallType) ==
  [m EXCEPT !.walls = Append(@, Wall(m.nextId, start.x, start.z, end.x, end.z, wallType)),
            !.nextId = @ + 1]

addWall(m, start, end, wallType) ==
  LET m1 == addWallSilent(m, start, end, wallType)
  IN [m |-> m1, calls |-> notify(m1)]

\* the openings of the removed wall left in place
removeWall_keepOpenings(m, id) ==
  LET m1 == [m EXCEPT !.walls = SelectSeq(@, LAMBDA w : w.id # id)]
  IN [m |-> m1, calls |-> notify(m1)]

removeWall(m, id) ==
  LET m1 == [m EXCEPT !.walls = SelectSeq(@, LAMBDA w : w.id # id),
                      !.openings = SelectSeq(@, LAMBDA o : o.wallId # id)]
  IN [m |-> m1, calls |-> notify(m1)]

clear(m) ==
  LET m1 == NewManager
  IN [m |-> m1, calls |-> notify(m1)]

setFootprint(m, minX, minZ, maxX, maxZ) ==
  LET exteriorIds == {m.walls[n].id : n \in {k \in 1..Len(m.walls) :
                                                m.walls[k].wallType = "exterior"}}
      kept == [m EXCEPT !.walls = SelectSeq(@, LAMBDA w : w.wallType # "exterior"),
                        !.openings = SelectSeq(@, LAMBDA o : o.wallId \notin exteriorIds)]
      corners == << Pt(minX, minZ), Pt(maxX, minZ), Pt(maxX, maxZ), Pt(minX, maxZ) >>
      m1 == addWallSilent(kept, corners[1], corners[2], "exterior")
      m2 == addWallSilent(m1, corners[2], corners[3], "exterior")
      m3 == addWallSilent(m2, corners[3], corners[4], "exterior")
      m4 == addWallSilent(m3, corners[4], corners[1], "exterior")
  IN [m |-> m4, calls |-> notify(m4)]

addOpeningSilent(m, wallId, ty, position, width, height, sillHeight) ==
  [m EXCEPT !.openings = Append(@, Opening(m.nextOpeningId, wallId, ty, position,
                                           width, height, sillHeight)),
            !.nextOpeningId = @ + 1]

addOpening(m, wallId, ty, position, width, height, sillHeight) ==
  LET m1 == addOpeningSilent(m, wallId, ty, position, width, height, sillHeight)
  IN [m |-> m1, calls |-> notify(m1)]

removeOpening(m, id) ==
  LET m1 == [m EXCEPT !.openings = SelectSeq(@, LAMBDA o : o.id # id)]
  IN [m |-> m1, calls |-> notify(m1)]

clearOpenings(m) ==
  LET m1 == [m EXCEPT !.openings = <<>>, !.nextOpeningId = 1]
  IN [m |-> m1, calls |-> notify(m1)]

loadExampleHouse(m) ==
  LET c == clear(m)
      corners == << Pt(0 - mm(4000), 0 - mm(3000)), Pt(mm(4000), 0 - mm(3000)),
                    Pt(mm(4000), mm(3000)), Pt(0 - mm(4000), mm(3000)) >>
      e1 == addWallSilent(c.m, corners[1], corners[2], "exterior")
      e2 == addWallSilent(e1, corners[2], corners[3], "exterior")
      e3 == addWallSilent(e2, corners[3], corners[4], "exterior")
      e4 == addWallSilent(e3, corners[4], corners[1], "exterior")
      extIds == << c.m.nextId, e1.nextId, e2.nextId, e3.nextId >>
      i1 == addWallSilent(e4, Pt(0 - mm(4000), 0), Pt(mm(1000), 0), "interior")
      i2 == addWallSilent(i1, Pt(0, 0), Pt(0, mm(3000)), "interior")
      o1 == addOpeningSilent(i2, extIds[1], "door", mm(4000), mm(900), mm(2100), 0)
      o2 == addOpeningSilent(o1, extIds[1], "window", mm(1500), mm(1000), mm(1200), mm(900))
      o3 == addOpeningSilent(o2, extIds[1], "window", mm(6500), mm(1000), mm(1200), mm(900))
      o4 == addOpeningSilent(o3, extIds[2], "window", mm(3000), mm(1000), mm(1200), mm(900))
      o5 == addOpeningSilent(o4, extIds[3], "window", mm(2000), mm(1000), mm(1200), mm(900))
      o6 == addOpeningSilent(o5, extIds[3], "window", mm(6000), mm(1000), mm(1200), mm(900))
      o7 == addOpeningSilent(o6, extIds[4], "window", mm(3000), mm(1000), mm(1200), mm(900))
  IN [m |-> o7, calls |-> c.calls \o notify(o7)]

----------------------------------------------------------------------------
(* The callers of one WallManager with a listener on onChange *)

\* the number of operations of one run
MaxOperations == 3

\* the walls the drawing tool adds
WallInputs ==
  { [start |-> Pt(0, 0), end |-> Pt(mm(4000), 0), wallType |-> "exterior"],
    [start |-> Pt(mm(1000), 0), end |-> Pt(mm(1000), mm(3000)), wallType |-> "interior"] }

\* the footprints the footprint tool sets
FootprintInputs == { [minX |-> 0, minZ |-> 0, maxX |-> mm(10000), maxZ |-> mm(8000)] }

\* the opening configurations the opening tool places
OpeningInputs ==
  { [type |-> "window", position |-> mm(2000), width |-> mm(900),
     height |-> mm(1200), sillHeight |-> mm(900)],
    [type |-> "door", position |-> mm(700), width |-> mm(900),
     height |-> mm(2000), sillHeight |-> 0] }

StoredWallIds == {wm.walls[n].id : n \in 1..Len(wm.walls)}
StoredOpeningIds == {wm.openings[n].id : n \in 1..Len(wm.openings)}

InitManager ==
  /\ wm = NewManager
  /\ notified = NoCalls
  /\ app = Startup
  /\ log = NoLog
  /\ walls = <<>>
  /\ params = DefaultParams
  /\ openings = <<>>
  /\ shift = Pt(0, 0)
  /\ pc = "manager"
  /\ wi = 1
  /\ junctions = <<>>
  /\ junctionsShifted = <<>>
  /\ members = <<>>
  /\ frame = NoFrame
  /\ oc = NoLayout

\* the manager and the listener's record after an operation
Called(name, r) ==
  /\ notified.count < MaxOperations
  /\ wm' = r.m
  /\ notified' = [op |-> name, calls |-> r.calls, count |-> notified.count + 1]
  /\ UNCHANGED <<app, log, engineVars>>

AddWall ==
  \E i \in WallInputs : Called("addWall", addWall(wm, i.start, i.end, i.wallType))

\* with the id of a stored wall, or of the wall that would be added next
RemoveWall ==
  \E id \in StoredWallIds \cup {wm.nextId} : Called("removeWall", removeWall(wm, id))

Clear == Called("clear", clear(wm))

SetFootprint ==
  \E f \in FootprintInputs :
    Called("setFootprint", setFootprint(wm, f.minX, f.minZ, f.maxX, f.maxZ))

\* the opening tool passes the id of the stored wall it hit
AddOpening ==
  \E id \in StoredWallIds : \E o \in OpeningInputs :
    Called("addOpening",
           addOpening(wm, id, o.type, o.position, o.width, o.height, o.sillHeight))

RemoveOpening ==
  \E id \in StoredOpeningIds \cup {wm.nextOpeningId} :
    Called("removeOpening", removeOpening(wm, id))

ClearOpenings == Called("clearOpenings", clearOpenings(wm))

LoadExampleHouse == Called("loadExampleHouse", loadExampleHouse(wm))

NextManager ==
  \/ AddWall \/ RemoveWall \/ Clear \/ SetFootprint
  \/ AddOpening \/ RemoveOpening \/ ClearOpenings \/ LoadExampleHouse

SpecManager == InitManager /\ [][NextManager]_vars

----------------------------------------------------------------------------
\* C12: every operation of WallManager calls onChange exactly once -- the
\* mutations addWall, removeWall, addOpening, removeOpening, clear,
\* clearOpenings, and the batch operations setFootprint and
\* loadExampleHouse -- and the one call of a batch operation comes at the
\* end, when the listener sees all its changes applied.
C12_OneNotificationPerOperation ==
  notified.op # "none" =>
    /\ Len(notified.calls) = 1
    /\ notified.calls[1] = [walls |-> wm.walls, openings |-> wm.openings]

----------------------------------------------------------------------------
(* main.ts: regenerate, the debounce timer, the phase handler and the       *)
(* handlers wired to the control panel, the tools and the WallManager.      *)
(* Operators take the page state a and the WallManager m.                   *)

\* the group meshBuilder.buildFrame makes of the frame generated from these
\* inputs; the API is sent walls and params only
Group(by, ws, p, os) == [by |-> by, walls |-> ws, params |-> p, openings |-> os]

PhaseIndex(phase) == CHOOSE n \in 1..Len(PHASE_ORDER) : PHASE_ORDER[n] = phase

\* regenerate() up to its await, or to its end when it generates locally
regenerate(a, m) ==
  LET cleared == [a EXCEPT !.frameGroup = <<>>]
  IN IF Len(m.walls) = 0 THEN cleared
     ELSE IF a.useApi
       THEN [cleared EXCEPT !.pending =
               Append(@, [walls |-> m.walls, params |-> a.params, openings |-> m.openings])]
       ELSE [cleared EXCEPT !.frameGroup =
               Append(@, Group("local", m.walls, a.params, m.openings))]

\* the smallest timer id not in use
FreshTimer(ts) == CHOOSE n \in 1..(Cardinality(ts) + 1) : \A t \in ts : t.id # n

regenerateDebounced_noCancel(a) ==
  LET id == FreshTimer(a.timers)
  IN [a EXCEPT !.timers = a.timers \cup {[id |-> id, left |-> DebounceTicks]},
               !.regenerateTimer = id]

regenerateDebounced(a) ==
  LET kept == IF a.regenerateTimer # 0
                THEN {t \in a.timers : t.id # a.regenerateTimer}
                ELSE a.timers
      id == FreshTimer(kept)
  IN [a EXCEPT !.timers = kept \cup {[id |-> id, left |-> DebounceTicks]},
               !.regenerateTimer = id]

onPhaseChange_keepTools(a, m, phase) ==
  LET enabled == [a EXCEPT !.footprintEnabled = @ \/ phase = "exterior",
                           !.drawingEnabled = @ \/ phase = "interior",
                           !.openingEnabled = @ \/ phase = "openings"]
  IN regenerate(enabled, m)

onPhaseChange(a, m, phase) ==
  LET disabled == [a EXCEPT !.footprintEnabled = FALSE,
                            !.drawingEnabled = FALSE,
                            !.openingEnabled = FALSE]
      enabled == [disabled EXCEPT !.footprintEnabled = (phase = "exterior"),
                                  !.drawingEnabled = (phase = "interior"),
                                  !.openingEnabled = (phase = "openings")]
  IN regenerate(enabled, m)

\* wallManager.onChange, once for every call the WallManager made
RECURSIVE onChange(_, _)
onChange(a, calls) ==
  IF calls = <<>> THEN a
  ELSE onChange(regenerate(a, Head(calls)), Tail(calls))

\* controlPanel.onParamsChange
onParamsChange(a) == regenerateDebounced(a)

\* controlPanel.onClear: the page and the WallManager after it
onClear(a, m) ==
  LET r == clear(m)
      a1 == onChange(a, r.calls)
  IN [a |-> [a1 EXCEPT !.frameGroup = <<>>], m |-> r.m, calls |-> r.calls]

\* the id of the first wall with these end points, 0 when there is none
findWall(ws, sx, sz, ex, ez) ==
  LET hits == {n \in 1..Len(ws) :
                 /\ Abs(ws[n].start.x - sx) < mm(100) /\ Abs(ws[n].start.z - sz) < mm(100)
                 /\ Abs(ws[n].end.x - ex) < mm(100) /\ Abs(ws[n].end.z - ez) < mm(100)}
  IN IF hits = {} THEN 0 ELSE ws[SetMin(hits)].id

\* addOpening when the wall was found
addOpeningIf(m, id, ty, position, width, height, sillHeight) ==
  IF id = 0 THEN m ELSE addOpening(m, id, ty, position, width, height, sillHeight).m

\* loadExampleHouse of main.ts: wallManager.onChange is null while it fills
\* the WallManager
exampleHouse(m) ==
  LET m0 == clear(m).m
      m1 == setFootprint(m0, 0, 0, mm(10000), mm(8000)).m
      m2 == addWall(m1, Pt(mm(5000), 0), Pt(mm(5000), mm(8000)), "interior").m
      m3 == addWall(m2, Pt(0, mm(4000)), Pt(mm(5000), mm(4000)), "interior").m
      m4 == addWall(m3, Pt(mm(5000), mm(4000)), Pt(mm(10000), mm(4000)), "interior").m
      ws == m4.walls
      bottom == findWall(ws, 0, 0, mm(10000), 0)
      right == findWall(ws, mm(10000), 0, mm(10000), mm(8000))
      top == findWall(ws, mm(10000), mm(8000), 0, mm(8000))
      left == findWall(ws, 0, mm(8000), 0, 0)
      central == findWall(ws, mm(5000), 0, mm(5000), mm(8000))
      leftCross == findWall(ws, 0, mm(4000), mm(5000), mm(4000))
      rightCross == findWall(ws, mm(5000), mm(4000), mm(10000), mm(4000))
      o1 == addOpeningIf(m4, bottom, "door", mm(2500), mm(900), mm(2100), 0)
      o2 == addOpeningIf(o1, bottom, "window", mm(7500), mm(1200), mm(1200), mm(900))
      o3 == addOpeningIf(o2, right, "window", mm(2000), mm(1200), mm(1200), mm(900))
      o4 == addOpeningIf(o3, right, "window", mm(6000), mm(1000), mm(1200), mm(900))
      o5 == addOpeningIf(o4, top, "window", mm(2500), mm(1000), mm(1200), mm(900))
      o6 == addOpeningIf(o5, top, "window", mm(7500), mm(1200), mm(1200), mm(900))
      o7 == addOpeningIf(o6, left, "window", mm(2000), mm(1200), mm(1200), mm(900))
      o8 == addOpeningIf(o7, left, "window", mm(6000), mm(1500), mm(1200), mm(900))
      o9 == addOpeningIf(o8, central, "door", mm(2000), mm(800), mm(2100), 0)
      o10 == addOpeningIf(o9, leftCross, "door", mm(2500), mm(800), mm(2100), 0)
  IN addOpeningIf(o10, rightCross, "door", mm(2500), mm(800), mm(2100), 0)

mainLoadExampleHouse(a, m) ==
  LET m1 == exampleHouse(m)
      a1 == [a EXCEPT !.frameGroup = <<>>, !.currentPhase = "done"]
  IN [a |-> onPhaseChange(a1, m1, "done"), m |-> m1]

\* ControlPanel.goNext
goNext(a, m) ==
  IF a.currentPhase = "done"
    THEN LET c == onClear(a, m)
             a1 == [c.a EXCEPT !.currentPhase = "exterior"]
         IN {[a |-> onPhaseChange(a1, c.m, "exterior"), m |-> c.m]}
  ELSE IF a.currentPhase = "roof"
    THEN LET a1 == onParamsChange(a)
             a2 == regenerate(a1, m)
             a3 == [a2 EXCEPT !.currentPhase = "done"]
         IN {[a |-> onPhaseChange(a3, m, "done"), m |-> m]}
  ELSE LET next == PHASE_ORDER[PhaseIndex(a.currentPhase) + 1]
           a1 == [a EXCEPT !.currentPhase = next]
       IN {[a |-> onPhaseChange(a1, m, next), m |-> m]}

\* ControlPanel.goBack
goBack(a, m) ==
  LET prev == PHASE_ORDER[PhaseIndex(a.currentPhase) - 1]
      a1 == [a EXCEPT !.currentPhase = prev]
  IN onPhaseChange(a1, m, prev)

\* the click handler of a step of the phase stepper
stepClick(a, m, phase) ==
  onPhaseChange([a EXCEPT !.currentPhase = phase], m, phase)

\* OpeningTool.onClick on wall w at t along it, with the tool's config
openingClick(m, w, t, config) ==
  LET wallOpenings == SelectSeq(m.openings, LAMBDA o : o.wallId = w.id)
      under == {n \in 1..Len(wallOpenings) :
                  /\ t >= wallOpenings[n].position - wallOpenings[n].width \div 2
                  /\ t <= wallOpenings[n].position + wallOpenings[n].width \div 2}
      halfW == config.width \div 2
      clampedT == Max2(halfW, Min2(computeWallDir(w).length - halfW, t))
      overlap == \E n \in 1..Len(wallOpenings) :
                   /\ clampedT - halfW < wallOpenings[n].position + wallOpenings[n].width \div 2
                   /\ clampedT + halfW > wallOpenings[n].position - wallOpenings[n].width \div 2
  IN IF under # {} THEN removeOpening(m, wallOpenings[SetMin(under)].id)
     ELSE IF overlap THEN [m |-> m, calls |-> <<>>]
     ELSE addOpening(m, w.id, config.type, clampedT, config.width, config.height,
                     config.sillHeight)

----------------------------------------------------------------------------
(* The page as a state machine: one action per task the browser runs *)

\* the number of inputs of the user in one run
MaxInputs == 3

\* the wall the drawing tool adds
DrawInputs == { [start |-> Pt(mm(1000), 0), end |-> Pt(mm(1000), mm(3000))] }

\* where on the first wall the opening tool is clicked
HitPositions == { mm(5000) }

\* OpeningTool's config
OpeningConfig == [type |-> "window", width |-> mm(900), height |-> mm(1200),
                  sillHeight |-> mm(900)]

InitApp ==
  /\ wm = NewManager
  /\ notified = NoCalls
  /\ app = Startup
  /\ log = NoLog
  /\ walls = <<>>
  /\ params = DefaultParams
  /\ openings = <<>>
  /\ shift = Pt(0, 0)
  /\ pc = "page"
  /\ wi = 1
  /\ junctions = <<>>
  /\ junctionsShifted = <<>>
  /\ members = <<>>
  /\ frame = NoFrame
  /\ oc = NoLayout

\* what the observer notes at an input of the user
Input(l) == [l EXCEPT !.inputs = @ + 1]

\* what the observer notes when onParamsChange is called
Changed(l) ==
  [l EXCEPT !.sinceChange = 0, !.fired = 0, !.stale = TRUE,
            !.burst = IF l.sinceChange < DebounceTicks THEN 2 ELSE 1]

\* what the observer notes when regenerate is called
Regenerated(l) == [l EXCEPT !.stale = FALSE]

\* the page after an input whose handler left the WallManager alone and
\* called regenerate
Handled(a) ==
  /\ log.inputs < MaxInputs
  /\ app' = a
  /\ log' = Regenerated(Input(log))
  /\ UNCHANGED <<wm, notified, engineVars>>

\* the page after a tool changed the WallManager and onChange ran
Edited(r) ==
  LET a == onChange(app, r.calls)
  IN /\ log.inputs < MaxInputs
     /\ r.calls # <<>>
     /\ wm' = r.m
     /\ app' = a
     /\ log' = Regenerated(Input(log))
     /\ UNCHANGED <<notified, engineVars>>

\* apiClient.healthCheck() resolves
HealthResolve ==
  /\ app.health = "pending"
  /\ \E ok \in BOOLEAN : app' = [app EXCEPT !.useApi = ok, !.health = "resolved"]
  /\ UNCHANGED <<wm, notified, log, engineVars>>

\* a slider moves: readParams, onParamsChange
ParamsChange ==
  LET a == onParamsChange([app EXCEPT !.params = 1 - @])
  IN /\ log.inputs < MaxInputs
     /\ app' = a
     /\ log' = Changed(Input(log))
     /\ UNCHANGED <<wm, notified, engineVars>>

\* 40 ms pass
Tick ==
  /\ app' = [app EXCEPT !.timers = {[t EXCEPT !.left = Max2(@ - 1, 0)] : t \in app.timers}]
  /\ log' = IF app.timers = {}
              THEN [log EXCEPT !.sinceChange = DebounceTicks, !.burst = 0, !.fired = 0]
              ELSE [log EXCEPT !.sinceChange = Min2(@ + 1, DebounceTicks)]
  /\ UNCHANGED <<wm, notified, engineVars>>

\* a timer that is due runs its callback, regenerate()
TimerFire ==
  \E t \in app.timers :
    /\ t.left = 0
    /\ app' = regenerate([app EXCEPT !.timers = @ \ {t}], wm)
    /\ log' = Regenerated([log EXCEPT !.fired = Min2(@ + 1, 2)])
    /\ UNCHANGED <<wm, notified, engineVars>>

\* the footprint tool places or resizes the rectangle
FootprintPlaced ==
  /\ app.footprintEnabled
  /\ \E f \in FootprintInputs :
       Edited(setFootprint(wm, f.minX, f.minZ, f.maxX, f.maxZ))

\* the drawing tool gets the second click of a wall
WallDrawn ==
  /\ app.drawingEnabled
  /\ \E i \in DrawInputs : Edited(addWall(wm, i.start, i.end, "interior"))

\* the opening tool is clicked on a wall
OpeningClicked ==
  /\ app.openingEnabled
  /\ Len(wm.walls) > 0
  /\ \E t \in HitPositions :
       Edited(openingClick(wm, wm.walls[1], t, OpeningConfig))

\* the Next button: Next, Generate Frame or Start Over
NextClicked ==
  \E r \in goNext(app, wm) :
    /\ log.inputs < MaxInputs
    /\ app' = r.a
    /\ wm' = r.m
    /\ log' = Regenerated(IF app.currentPhase = "roof" THEN Changed(Input(log))
                                                         ELSE Input(log))
    /\ UNCHANGED <<notified, engineVars>>

\* the Back button, shown after the first phase and before done
BackClicked ==
  /\ PhaseIndex(app.currentPhase) > 1
  /\ app.currentPhase # "done"
  /\ Handled(goBack(app, wm))

\* a step of the stepper that is not after the current phase
StepClicked ==
  \E phase \in {"exterior", "interior", "openings", "roof"} :
    /\ PhaseIndex(phase) <= PhaseIndex(app.currentPhase)
    /\ Handled(stepClick(app, wm, phase))

\* the Load Example button
LoadExampleClicked ==
  LET r == mainLoadExampleHouse(app, wm)
  IN /\ log.inputs < MaxInputs
     /\ app' = r.a
     /\ wm' = r.m
     /\ log' = Regenerated(Input(log))
     /\ UNCHANGED <<notified, engineVars>>

RemoveAt(s, i) == SubSeq(s, 1, i - 1) \o SubSeq(s, i + 1, Len(s))

\* apiClient.generate resolves: regenerate goes on after its await
ApiResolve ==
  \E i \in 1..Len(app.pending) :
    LET call == app.pending[i]
    IN /\ app' = [app EXCEPT !.pending = RemoveAt(@, i),
                             !.frameGroup = Append(@, Group("api", call.walls, call.params, <<>>))]
       /\ UNCHANGED <<wm, notified, log, engineVars>>

\* apiClient.generate rejects: the catch block of regenerate
ApiReject ==
  \E i \in 1..Len(app.pending) :
    LET call == app.pending[i]
        rest == [app EXCEPT !.pending = RemoveAt(@, i)]
    IN /\ app' = IF app.useApi
                   THEN [rest EXCEPT !.useApi = FALSE,
                                     !.frameGroup = Append(@, Group("local", call.walls,
                                                                    call.params, call.openings))]
                   ELSE rest
       /\ log' = [log EXCEPT !.everFailed = TRUE]
       /\ UNCHANGED <<wm, notified, engineVars>>

NextApp ==
  \/ HealthResolve \/ ParamsChange \/ Tick \/ TimerFire
  \/ FootprintPlaced \/ WallDrawn \/ OpeningClicked
  \/ NextClicked \/ BackClicked \/ StepClicked \/ LoadExampleClicked
  \/ ApiResolve \/ ApiReject

SpecApp == InitApp /\ [][NextApp]_vars

\* a handler that calls readParams, and so controlPanel.onParamsChange, ran
ParamsChanged == ParamsChange \/ (NextClicked /\ app.currentPhase = "roof")

\* time passes, a due timer runs, and the user stops changing parameters at
\* some point
SpecAppFair ==
  SpecApp /\ WF_vars(Tick) /\ WF_vars(TimerFire) /\ <>[][~ParamsChanged]_vars

----------------------------------------------------------------------------
(* The debounce of parameter changes *)

\* what the regenerate that started last has read: its API call while it
\* waits for the API, otherwise the group it has added
LastStarted ==
  IF app.useApi
    THEN app.pending[Len(app.pending)]
    ELSE app.frameGroup[Len(app.frameGroup)]

\* C13: parameter changes are debounced at 80 ms.  At most one timer is
\* pending at any time; every onParamsChange cancels the pending timer and
\* starts a new one with the full delay; the timer's regenerate runs only
\* 80 ms or more after the last change, at most once per change, and reads
\* the latest parameters; and every parameter change is eventually followed
\* by a regenerate that reads the latest parameters.
C13_Debounced ==
  /\ [](Cardinality(app.timers) <= 1)
  /\ [][ParamsChanged =>
          app'.timers = {[id |-> app'.regenerateTimer, left |-> DebounceTicks]}]_vars
  /\ [][TimerFire => /\ log.sinceChange = DebounceTicks
                     /\ log.fired = 0
                     /\ Len(wm.walls) > 0 => LastStarted'.params = app.params]_vars
  /\ (log.stale ~> ~log.stale)

\* two changes less than 80 ms apart, and the one timer regenerate after them
C13_Witness ==
  /\ log.burst = 2
  /\ log.fired = 1
  /\ ~log.stale
  /\ app.timers = {}

----------------------------------------------------------------------------
(* The tools and the phases *)

EnabledTools ==
  {t \in {"footprint", "drawing", "opening"} :
     \/ t = "footprint" /\ app.footprintEnabled
     \/ t = "drawing" /\ app.drawingEnabled
     \/ t = "opening" /\ app.openingEnabled}

ToolOf(phase) ==
  CASE phase = "exterior" -> {"footprint"}
    [] phase = "interior" -> {"drawing"}
    [] phase = "openings" -> {"opening"}
    [] OTHER -> {}

\* C14: after startup and after any sequence of phase changes (Next, Back,
\* stepper click, Start Over, Load Example) at most one tool is enabled: the
\* FootprintTool in phase exterior, the DrawingTool in interior, the
\* OpeningTool in openings, and none in roof and done.
C14_OneToolPerPhase == EnabledTools = ToolOf(app.currentPhase)

\* the opening tool alone is enabled, on a plan that has walls
C14_Witness ==
  /\ app.currentPhase = "openings"
  /\ EnabledTools = {"opening"}
  /\ Len(wm.walls) > 0

----------------------------------------------------------------------------
(* The fallback from the API to the local engine *)

\* C15: whenever a regenerate that is using the API fails, that same
\* regenerate sets useApi to false, generates the frame locally from the
\* walls, params and openings it had read, and displays it; afterwards
\* useApi is never true again.
C15_FailedApiFallsBackLocally ==
  /\ [][ApiReject =>
          /\ ~app'.useApi
          /\ \E i \in 1..Len(app.pending) :
               /\ app'.pending = RemoveAt(app.pending, i)
               /\ InSeq(app'.frameGroup,
                        Group("local", app.pending[i].walls, app.pending[i].params,
                              app.pending[i].openings))]_vars
  /\ [](log.everFailed => ~app.useApi)

----------------------------------------------------------------------------
(* The span test of detection against the span test of classification *)

\* the walls associated with the quantized point k through their span, not
\* through an end point of their own
ThroughAt(k) ==
  {n \in AssociatedWith(k) : key(walls[n].start) # k /\ key(walls[n].end) # k}

\* C21: a wall end point is associated with another wall's span only if it
\* is less than 2*EPS from that wall and its along-wall fraction is inside
\* (0.01, 0.99): the span test of detection is the span test of
\* classification, and every junction made because a wall end point lies on
\* another wall's span is a tee, never a corner.
C21_SpanJunctionsAreTees ==
  pc # "start" =>
    /\ \A n, m \in WallIndices :
         walls[m].id # walls[n].id =>
           \A q \in {walls[m].start, walls[m].end} :
             isPointOnSegment(q, walls[n].start, walls[n].end)
               <=> isPointOnSegmentInterior(q, walls[n].start, walls[n].end)
    /\ \A j \in 1..Len(junctions) :
         ThroughAt(key(junctions[j].point)) # {} => junctions[j].type = "tee"

----------------------------------------------------------------------------
(* The partition backers of tee junctions *)

TeeJunctions == {j \in 1..Len(junctions) : junctions[j].type = "tee"}

\* the walls of junction j whose span holds the point in its interior, and
\* the other walls of the junction
ThroughWalls(j) ==
  {n \in WallIndices : /\ InSeq(junctions[j].wallIds, walls[n].id)
                       /\ InteriorTo(walls[n], junctions[j].point)}
ButtingWalls(j) ==
  {n \in WallIndices : /\ InSeq(junctions[j].wallIds, walls[n].id)
                       /\ ~InteriorTo(walls[n], junctions[j].point)}

\* the backer of through wall w at distance bt from its start
BackerAt(w, bt) ==
  Member(PointAt(w, bt, params.studWidth),
         PointAt(w, bt, params.wallHeight - 2 * params.studWidth),
         params.studWidth, DepthOf(w), "partition_backer", w.id)

\* the positions t - 0.75*d and t + 0.75*d of junction j along w
BackerPositions(w, j) ==
  {AlongOf(w, junctions[j].point) + side * ((3 * DepthOf(w)) \div 4) : side \in {0 - 1, 1}}

\* the number of (junction, butting wall) pairs whose backer of w is at bt
PairsAt(w, bt) ==
  LET js == {j \in TeeJunctions : /\ \E n \in ThroughWalls(j) : walls[n] = w
                                  /\ bt \in BackerPositions(w, j)}
      RECURSIVE Sum(_)
      Sum(S) == IF S = {} THEN 0
                ELSE LET j == CHOOSE x \in S : TRUE
                     IN Cardinality(ButtingWalls(j)) + Sum(S \ {j})
  IN Sum(js)

----------------------------------------------------------------------------
(* Noggings *)

\* the stud-like positions of wall w: the on-center positions and, for each
\* opening, left, right, left + studWidth and right - studWidth
StudLikePositions(w) ==
  {OnCenter(w)[n] : n \in 1..Len(OnCenter(w))}
    \cup UNION {{LeftOf(openings[k]), RightOf(openings[k]),
                 LeftOf(openings[k]) + params.studWidth,
                 RightOf(openings[k]) - params.studWidth} : k \in OpeningsOn(w)}

\* de-duplicated: a position within EPS of a smaller one is dropped
Deduplicated(P) == {v \in P : ~\E u \in P : u < v /\ v - u <= EPS}

UniquePositions(w) == Deduplicated(StudLikePositions(w))

\* the pairs of neighbours of a set of positions
Neighbours(U) ==
  {<<u, SetMin({v \in U : v > u})>> : u \in {x \in U : \E v \in U : v > x}}

AdjacentPairs(w) == Neighbours(UniquePositions(w))

\* the span from t1 to t2 lies wholly inside an opening of w, or spans
\* clear across one (to within EPS)
InsideOpening(w, t1, t2) ==
  \E k \in OpeningsOn(w) :
    t1 >= LeftOf(openings[k]) - EPS /\ t2 <= RightOf(openings[k]) + EPS
AcrossOpening(w, t1, t2) ==
  \E k \in OpeningsOn(w) :
    t1 < LeftOf(openings[k]) - EPS /\ t2 > RightOf(openings[k]) + EPS

NoggingOf(w, t1, t2) ==
  LET y == (params.studWidth + params.wallHeight - 2 * params.studWidth) \div 2
  IN Member(PointAt(w, t1, y), PointAt(w, t2, y),
            params.studWidth, DepthOf(w), "nogging", w.id)

\* the openings of w do not overlap and lie within the wall
OpeningsInBounds(w) ==
  /\ \A k \in OpeningsOn(w) :
       LeftOf(openings[k]) >= 0 /\ RightOf(openings[k]) <= SpanOf(w)
  /\ \A k, l \in OpeningsOn(w) :
       k # l => \/ RightOf(openings[k]) <= LeftOf(openings[l])
                \/ RightOf(openings[l]) <= LeftOf(openings[k])

\* the adjacent pairs of w that get a nogging
NoggedPairs(w) ==
  {pr \in AdjacentPairs(w) :
     /\ pr[2] - pr[1] >= DepthOf(w) + EPS
     /\ ~InsideOpening(w, pr[1], pr[2])
     /\ ~AcrossOpening(w, pr[1], pr[2])}

\* the noggings are one per adjacent pair that gets one, at mid-cavity
NoggingsPerPair ==
  \A n \in FramedWalls :
    LET w == walls[n]
        nogs == SelectSeq(frame.members,
                          LAMBDA m : m.type = "nogging" /\ m.wallId = w.id)
        pairs == NoggedPairs(w)
    IN IF params.noggings
       THEN /\ Len(nogs) = Cardinality(pairs)
            /\ {nogs[i] : i \in 1..Len(nogs)}
                 = {NoggingOf(w, pr[1], pr[2]) : pr \in pairs}
       ELSE Len(nogs) = 0

\* the length by which a member of w overlaps the interior of opening o
OverlapWith(w, m, o) ==
  Min2(Max2(AlongOf(w, m.start), AlongOf(w, m.end)), RightOf(o))
    - Max2(Min2(AlongOf(w, m.start), AlongOf(w, m.end)), LeftOf(o))

----------------------------------------------------------------------------
(* The members of a gable roof *)

Gable == params.roof.type = "gable"

ExteriorXs == {walls[n].start.x : n \in ExteriorIndices} \cup {walls[n].end.x : n \in ExteriorIndices}

\* the bounding-box extent along the ridge axis, where it starts, and half
\* the extent across it
RidgeSpan ==
  IF params.roof.ridgeAxis = "x" THEN SetMax(ExteriorXs) - SetMin(ExteriorXs)
  ELSE SetMax(ExteriorZs) - SetMin(ExteriorZs)
RidgeMin ==
  IF params.roof.ridgeAxis = "x" THEN SetMin(ExteriorXs) ELSE SetMin(ExteriorZs)
PerpHalfSpan ==
  IF params.roof.ridgeAxis = "x" THEN (SetMax(ExteriorZs) - SetMin(ExteriorZs)) \div 2
  ELSE (SetMax(ExteriorXs) - SetMin(ExteriorXs)) \div 2

\* count = max(1, round(span / studSpacing))
RafterCount == Max2(1, RoundDiv(RidgeSpan, params.studSpacing))

\* the coordinate of a roof member along the ridge axis
RidgeCoord(m) == IF params.roof.ridgeAxis = "x" THEN m.start.x ELSE m.start.z

\* the roof has pairs rafter pairs: one ridge_beam, 2 rafters and one
\* ceiling_joist per pair, one collar_tie per pair iff the perpendicular
\* half-span exceeds 1.0 m, two fascia
GableMembers(pairs) ==
  LET ms == frame.members
  IN /\ CountType(ms, "ridge_beam") = 1
     /\ CountType(ms, "rafter") = 2 * pairs
     /\ CountType(ms, "ceiling_joist") = pairs
     /\ CountType(ms, "collar_tie") = (IF PerpHalfSpan > mm(1000) THEN pairs ELSE 0)
     /\ CountType(ms, "fascia") = 2

\* C24 as stated: a gable roof over at least one exterior wall has count =
\* max(1, round(span / studSpacing)) rafter pairs, one ridge_beam, 2 rafters
\* and one ceiling_joist per pair, one collar_tie per pair iff the
\* perpendicular half-span exceeds 1.0 m, and two fascia.
C24_CountRafterPairs ==
  (Done /\ Gable /\ ExteriorIndices # {}) => GableMembers(RafterCount)

\* C24: the rafter pairs stand at the count + 1 positions min + i * span /
\* count, i = 0..count, from the minimum to the maximum of the ridge axis: a
\* gable roof over at least one exterior wall has count + 1 pairs, one
\* ridge_beam, 2 rafters and one ceiling_joist per pair, one collar_tie per
\* pair iff the perpendicular half-span exceeds 1.0 m, and two fascia.
C24_CountPlusOneRafterPairs ==
  (Done /\ Gable /\ ExteriorIndices # {}) =>
    /\ GableMembers(RafterCount + 1)
    /\ \A ty \in {"rafter", "ceiling_joist"} :
         {RidgeCoord(frame.members[k]) :
            k \in {i \in 1..Len(frame.members) : frame.members[i].type = ty}}
           = {RidgeMin + (i * RidgeSpan) \div RafterCount : i \in 0..RafterCount}
    /\ \A i \in 0..RafterCount :
         LET at == RidgeMin + (i * RidgeSpan) \div RafterCount
             same == Cardinality({k \in 0..RafterCount :
                                    RidgeMin + (k * RidgeSpan) \div RafterCount = at})
         IN Len(SelectSeq(frame.members,
                          LAMBDA m : m.type = "rafter" /\ RidgeCoord(m) = at)) = 2 * same

\* a gable roof over the rectangular footprint, with collar ties
C24_Witness ==
  /\ Done
  /\ Gable
  /\ walls = ScenarioBWalls
  /\ RafterCount >= 10
  /\ CountType(frame.members, "rafter") = 2 * (RafterCount + 1)
  /\ CountType(frame.members, "collar_tie") = RafterCount + 1

----------------------------------------------------------------------------
(* No piece of timber twice *)

\* the walls are pairwise distinct, none shorter than 0.01 m, with unique
\* ids, and the openings of each wall do not overlap
DistinctWalls ==
  /\ \A n \in WallIndices : SpanOf(walls[n]) >= MinWallLength
  /\ \A n, m \in WallIndices :
       n # m => /\ walls[n].id # walls[m].id
                /\ {walls[n].start, walls[n].end} # {walls[m].start, walls[m].end}
  /\ \A n \in WallIndices : \A k, l \in OpeningsOn(walls[n]) :
       k # l => \/ RightOf(openings[k]) <= LeftOf(openings[l])
                \/ RightOf(openings[l]) <= LeftOf(openings[k])

\* C26: for pairwise distinct, non-degenerate walls with unique ids and
\* non-overlapping openings, the member list generate returns has no two
\* members with the same type, start point and end point.
C26_NoMemberTwice ==
  (Done /\ DistinctWalls) =>
    \A i, j \in 1..Len(frame.members) :
      ( /\ frame.members[i].type = frame.members[j].type
        /\ frame.members[i].start = frame.members[j].start
        /\ frame.members[i].end = frame.members[j].end ) => i = j

----------------------------------------------------------------------------
(* The heights of the wall and junction members *)

RoofTypes == {"rafter", "ridge_beam", "collar_tie", "ceiling_joist", "fascia"}

VerticalTypes ==
  {"stud", "king_stud", "trimmer", "cripple_stud", "corner_stud", "partition_backer"}

\* every opening lies within its wall along the wall's length
OpeningsWithinLength ==
  \A n \in WallIndices : \A k \in OpeningsOn(walls[n]) :
    LeftOf(openings[k]) >= 0 /\ RightOf(openings[k]) <= SpanOf(walls[n])

\* C29: with wallHeight > 3*studWidth and the openings within their wall
\* along its length, every member that is not a roof member has 0 <=
\* start.y <= end.y <= wallHeight, and every vertical member has end.y >
\* start.y and end.y <= wallHeight - 2*studWidth, whatever the openings'
\* height and sillHeight.
C29_MembersWithinWallHeight ==
  (Done /\ params.wallHeight > 3 * params.studWidth /\ OpeningsWithinLength) =>
    \A i \in 1..Len(frame.members) :
      LET m == frame.members[i]
      IN /\ m.type \notin RoofTypes =>
              /\ 0 <= m.start.y
              /\ m.start.y <= m.end.y
              /\ m.end.y <= params.wallHeight
         /\ m.type \in VerticalTypes =>
              /\ m.end.y > m.start.y
              /\ m.end.y <= params.wallHeight - 2 * params.studWidth

----------------------------------------------------------------------------
(* generate with the loop of computeStudPositionsOC taken one iteration at  *)
(* a time                                                                   *)

\* the default stud spacing and a narrow one of the control panel
TermParams ==
  { [DefaultParams EXCEPT !.studSpacing = sp, !.roof = rf]
      : sp \in {mm(600), mm(300)},
        rf \in {NoRoof,
                [type |-> "gable", pitchAngle |-> 30, overhang |-> mm(300),
                 ridgeAxis |-> "x", rafterWidth |-> mm(45), rafterDepth |-> mm(145)]} }

InitTerm ==
  /\ walls \in Layouts
  /\ params \in TermParams
  /\ openings \in {<<>>, <<OpeningPool[1], OpeningPool[2]>>}
  /\ shift = Pt(0, 0)
  /\ pc = "start"
  /\ wi = 1
  /\ junctions = <<>>
  /\ junctionsShifted = <<>>
  /\ members = <<>>
  /\ frame = NoFrame
  /\ oc = NoLayout
  /\ wm = NewManager
  /\ notified = NoCalls
  /\ app = Startup
  /\ log = NoLog

\* generateWallFrame has passed "if (dir.length < 0.01) return members" and
\* calls computeStudPositionsOC: const positions = [0]; let pos = studSpacing
StudLayout ==
  /\ pc = "walls"
  /\ wi <= Len(walls)
  /\ oc.pc = "idle"
  /\ computeWallDir(walls[wi]).length >= MinWallLength
  /\ oc' = [pc |-> "while", wallLength |-> computeWallDir(walls[wi]).length,
            positions |-> <<0>>, pos |-> params.studSpacing]
  /\ UNCHANGED <<pageVars, walls, params, openings, shift, pc, wi, junctions,
                 junctionsShifted, members, frame>>

\* the loop never advancing
LoopStep_noAdvance ==
  /\ oc.pc = "while"
  /\ oc.pos < oc.wallLength - EPS
  /\ oc' = [oc EXCEPT !.pos = @]
  /\ UNCHANGED <<pageVars, walls, params, openings, shift, pc, wi, junctions,
                 junctionsShifted, members, frame>>

\* one iteration of "while (pos < wallLength - EPS)"
LoopStep ==
  /\ oc.pc = "while"
  /\ oc.pos < oc.wallLength - EPS
  /\ oc' = [oc EXCEPT !.positions = Append(@, oc.pos),
                      !.pos = @ + params.studSpacing]
  /\ UNCHANGED <<pageVars, walls, params, openings, shift, pc, wi, junctions,
                 junctionsShifted, members, frame>>

\* the loop is left; the end stud is appended or replaces the last position
LoopExit ==
  /\ oc.pc = "while"
  /\ ~(oc.pos < oc.wallLength - EPS)
  /\ LET last == oc.positions[Len(oc.positions)]
     IN oc' = [oc EXCEPT
                 !.pc = "returned",
                 !.positions =
                    IF 4 * (oc.wallLength - last) > params.studSpacing
                    THEN Append(@, oc.wallLength)
                    ELSE IF Len(@) > 1 THEN [@ EXCEPT ![Len(@)] = oc.wallLength]
                    ELSE @]
  /\ UNCHANGED <<pageVars, walls, params, openings, shift, pc, wi, junctions,
                 junctionsShifted, members, frame>>

\* the rest of generateWallFrame once the positions are there, or all of it
\* for a wall shorter than 0.01 m
FrameWallAfterLayout ==
  /\ pc = "walls"
  /\ wi <= Len(walls)
  /\ \/ oc.pc = "returned"
     \/ oc.pc = "idle" /\ computeWallDir(walls[wi]).length < MinWallLength
  /\ LET wall == walls[wi]
     IN members' = members \o
          generateWallFrame(wall, computeWallDir(wall), wallParamsOf(wall, params),
                            wallOpeningsOf(openings, wall), junctions)
  /\ wi' = wi + 1
  /\ oc' = NoLayout
  /\ UNCHANGED <<pageVars, walls, params, openings, shift, pc, junctions,
                 junctionsShifted, frame>>

NextTerm ==
  \/ DetectJunctions
  \/ StudLayout
  \/ LoopStep
  \/ LoopExit
  \/ FrameWallAfterLayout
  \/ JunctionFraming
  \/ Roof
  \/ Return

SpecTerm == InitTerm /\ [][NextTerm]_vars

\* NextTerm as far as the program counter, the wall index and the locals of
\* the loop go: it is enabled exactly when NextTerm is, and every step of
\* NextTerm is a step of it
Control ==
  \/ pc = "start" /\ pc' = "walls" /\ UNCHANGED <<wi, oc>>
  \/ StudLayout
  \/ LoopStep
  \/ LoopExit
  \/ /\ pc = "walls"
     /\ wi <= Len(walls)
     /\ \/ oc.pc = "returned"
        \/ oc.pc = "idle" /\ computeWallDir(walls[wi]).length < MinWallLength
     /\ wi' = wi + 1
     /\ oc' = NoLayout
     /\ pc' = pc
  \/ pc = "walls" /\ wi > Len(walls) /\ pc' = "roof" /\ UNCHANGED <<wi, oc>>
  \/ pc = "roof" /\ pc' = "return" /\ UNCHANGED <<wi, oc>>
  \/ pc = "return" /\ pc' = "done" /\ UNCHANGED <<wi, oc>>

\* generate is sequential code: whatever statement the program counter is
\* at is executed
SpecTermFair == SpecTerm /\ WF_<<pc, wi, oc>>(Control)

\* C30: generate terminates and returns a TimberFrame for every wall list,
\* opening list and params with studSpacing > 0: each iteration of the
\* stud-layout loop increases the position by studSpacing, the loop is left
\* once the position has reached wallLength - EPS with the positions
\* computeStudPositionsOC returns, and the call returns the members with the
\* walls it was given.
C30_GenerateTerminates ==
  /\ <>(pc = "done")
  /\ [](pc = "done" => frame = generate(walls, params, openings))
  /\ [][NextTerm => Control]_vars
  /\ [][LoopStep => /\ oc'.pos = oc.pos + params.studSpacing
                    /\ oc'.pos > oc.pos
                    /\ Len(oc'.positions) = Len(oc.positions) + 1]_vars
  /\ [](oc.pc = "returned" =>
          /\ oc.pos >= oc.wallLength - EPS
          /\ oc.pos < oc.wallLength - EPS + params.studSpacing
          /\ oc.positions = computeStudPositionsOC(oc.wallLength, params.studSpacing))

\* the loop has run 33 times for a wall of 10 m at a spacing of 300 mm
C30_Witness ==
  /\ oc.pc = "returned"
  /\ oc.wallLength = mm(10000)
  /\ params.studSpacing = mm(300)
  /\ Len(oc.positions) = 35

----------------------------------------------------------------------------
(* The ids and references the WallManager holds *)

\* the interior walls of manager m and the openings on them, in Map order
InteriorOf(m) ==
  LET ws == SelectSeq(m.walls, LAMBDA w : w.wallType = "interior")
      ids == {ws[n].id : n \in 1..Len(ws)}
  IN [walls |-> ws, openings |-> SelectSeq(m.openings, LAMBDA o : o.wallId \in ids)]

\* C28: after any sequence of addWall, removeWall, setFootprint, addOpening
\* (with the id of a stored wall), removeOpening, clearOpenings, clear and
\* loadExampleHouse on one WallManager, every stored opening's wallId is the
\* id of a stored wall, the stored wall ids are pairwise distinct and so
\* are the stored opening ids; setFootprint leaves the interior walls and
\* their openings unchanged.
C28_ManagerIntegrity ==
  /\ [](\A n \in 1..Len(wm.openings) : wm.openings[n].wallId \in StoredWallIds)
  /\ [](\A n, k \in 1..Len(wm.walls) : wm.walls[n].id = wm.walls[k].id => n = k)
  /\ [](\A n, k \in 1..Len(wm.openings) : wm.openings[n].id = wm.openings[k].id => n = k)
  /\ [][SetFootprint => InteriorOf(wm') = InteriorOf(wm)]_vars

\* a footprint has been set around an interior wall that has an opening
C28_Witness ==
  /\ notified.op = "setFootprint"
  /\ Len(InteriorOf(wm).walls) = 1
  /\ Len(InteriorOf(wm).openings) = 1
  /\ Len(wm.walls) = 5


----------------------------------------------------------------------------
(* Overlapping calls of regenerate *)

\* every regenerate that was started has run to its end, none is waiting in
\* the debounce timer, and the parameters have been read since they changed
AllCompleted ==
  /\ app.pending = <<>>
  /\ app.timers = {}
  /\ ~log.stale

\* the group was made from what the regenerate started last has read: the
\* stored walls, the parameters and (when generated locally) the openings
FromLatestRead(g) ==
  /\ g.walls = wm.walls
  /\ g.params = app.params
  /\ g.by = "local" => g.openings = wm.openings

\* C25: regenerate is async and is started without serialization.  For every
\* interleaving of overlapping regenerate calls, once all of them have
\* completed, sceneManager.frameGroup holds at most one generated frame
\* group, and that group was produced from the walls, params and openings
\* read by the most recently started regenerate.
C25_OneGroupFromLatestRegenerate ==
  AllCompleted =>
    /\ Len(app.frameGroup) <= 1
    /\ \A n \in 1..Len(app.frameGroup) : FromLatestRead(app.frameGroup[n])

----------------------------------------------------------------------------
(* The opening tool alone, clicked on a plan that has no openings           *)

\* the number of clicks of one run
MaxClicks == 4

\* a plan the drawing tool can make (it takes walls of 0.05 m or more): a
\* wall of 4 m and a partition of 0.6 m
ToolWalls ==
  addWallSilent(addWallSilent(NewManager, Pt(0, 0), Pt(mm(4000), 0), "exterior"),
                Pt(mm(1000), 0), Pt(mm(1000), mm(600)), "interior")

\* hit.t of nearestWallHit: the projection of the cursor, clamped to the wall
ToolHits == { 0, mm(300), mm(1000), mm(1450), mm(1900), mm(2500), mm(4000) }

\* the configs setConfig stores: the tool's default and a door of the panel
ToolConfigs ==
  { OpeningConfig,
    [type |-> "door", width |-> mm(1200), height |-> mm(2000), sillHeight |-> 0] }

InitTool ==
  /\ wm = ToolWalls
  /\ notified = NoCalls
  /\ app = [Startup EXCEPT !.currentPhase = "openings", !.footprintEnabled = FALSE,
                           !.openingEnabled = TRUE]
  /\ log = NoLog
  /\ walls = <<>>
  /\ params = DefaultParams
  /\ openings = <<>>
  /\ shift = Pt(0, 0)
  /\ pc = "tool"
  /\ wi = 1
  /\ junctions = <<>>
  /\ junctionsShifted = <<>>
  /\ members = <<>>
  /\ frame = NoFrame
  /\ oc = NoLayout

\* OpeningTool.onClick: nearestWallHit finds wall n (walls under 0.01 m are
\* passed over) at t along it; the config is the one setConfig stored last
ToolClick ==
  /\ app.openingEnabled
  /\ log.inputs < MaxClicks
  /\ \E n \in 1..Len(wm.walls) : \E t \in ToolHits : \E config \in ToolConfigs :
       /\ computeWallDir(wm.walls[n]).length >= MinWallLength
       /\ t <= computeWallDir(wm.walls[n]).length
       /\ wm' = openingClick(wm, wm.walls[n], t, config).m
  /\ log' = Input(log)
  /\ UNCHANGED <<notified, app, engineVars>>

SpecTool == InitTool /\ [][ToolClick]_vars

\* the openings stored for wall w
StoredOpeningsOn(w) ==
  {wm.openings[n] : n \in {k \in 1..Len(wm.openings) : wm.openings[k].wallId = w.id}}

NonOverlapping(w) ==
  \A o1, o2 \in StoredOpeningsOn(w) :
    o1 # o2 => RightOf(o1) <= LeftOf(o2) \/ RightOf(o2) <= LeftOf(o1)

StoredWithinWall(w) ==
  \A o \in StoredOpeningsOn(w) :
    LeftOf(o) >= 0 /\ RightOf(o) <= computeWallDir(w).length

\* C27: starting from no openings, after any sequence of OpeningTool clicks
\* (each click removes the opening under the cursor or places a new one with
\* the current config), for every wall the stored openings are pairwise
\* non-overlapping and every opening satisfies 0 <= position - width/2 and
\* position + width/2 <= wallLength.
C27_OpeningsFitTheirWalls ==
  \A n \in 1..Len(wm.walls) :
    NonOverlapping(wm.walls[n]) /\ StoredWithinWall(wm.walls[n])

====
